---------------------------- MODULE Spec2Model ----------------------------
(***************************************************************************)
(* A model of the MAP price tool (src/index.tsx): the import engine        *)
(* (runImport and the IndexedDB product store), the in-memory product set  *)
(* of the App component, and the price-file reconciliation                 *)
(* (handleUploadPrices / handleClearPriceCheck).                           *)
(*                                                                         *)
(* Conventions.                                                            *)
(*  - A JavaScript string is a sequence of one-character strings.          *)
(*  - A nullable value is a set: {} is null/undefined, {v} is the value v. *)
(*  - A number is an integer count of hundredths (PriceScale == 100), so   *)
(*    120 is 12000 and the tolerance 0.05 is 5.                            *)
(*  - One action is one run-to-completion piece of JavaScript: an event    *)
(*    handler up to its first await, or the continuation that runs when an *)
(*    awaited promise settles.                                             *)
(***************************************************************************)
EXTENDS Integers, Sequences, FiniteSets, TLC

----------------------------------------------------------------------------
(* Strings *)

UpperLetters ==
    << "A","B","C","D","E","F","G","H","I","J","K","L","M",
       "N","O","P","Q","R","S","T","U","V","W","X","Y","Z" >>

LowerLetters ==
    << "a","b","c","d","e","f","g","h","i","j","k","l","m",
       "n","o","p","q","r","s","t","u","v","w","x","y","z" >>

Digits == << "0","1","2","3","4","5","6","7","8","9" >>

Range(f) == { f[i] : i \in DOMAIN f }

\* index of c in the sequence t, 0 when absent
IndexIn(c, t) == IF c \in Range(t) THEN CHOOSE i \in DOMAIN t : t[i] = c ELSE 0

\* String.prototype.toUpperCase / toLowerCase, character by character
UpperChar(c) == IF c \in Range(LowerLetters) THEN UpperLetters[IndexIn(c, LowerLetters)] ELSE c
LowerChar(c) == IF c \in Range(UpperLetters) THEN LowerLetters[IndexIn(c, UpperLetters)] ELSE c
toUpperCase(s) == [ i \in DOMAIN s |-> UpperChar(s[i]) ]
toLowerCase(s) == [ i \in DOMAIN s |-> LowerChar(s[i]) ]

IsSpace(c) == c \in { " ", "\t" }

RECURSIVE TrimLeft(_)
TrimLeft(s) == IF s # << >> /\ IsSpace(Head(s)) THEN TrimLeft(Tail(s)) ELSE s

RECURSIVE TrimRight(_)
TrimRight(s) ==
    IF s # << >> /\ IsSpace(s[Len(s)]) THEN TrimRight(SubSeq(s, 1, Len(s) - 1)) ELSE s

\* String.prototype.trim
trim(s) == TrimRight(TrimLeft(s))

\* s.replace(/-/g, ' ')
HyphensToSpaces(s) == [ i \in DOMAIN s |-> IF s[i] = "-" THEN " " ELSE s[i] ]

\* s.replace(/c/g, '')
RemoveAll(s, c) == SelectSeq(s, LAMBDA x : x # c)

\* String.prototype.includes
includes(s, sub) ==
    \E i \in 0 .. (Len(s) - Len(sub)) : SubSeq(s, i + 1, i + Len(sub)) = sub

----------------------------------------------------------------------------
(* Nullable values *)

Null == {}
Some(v) == { v }
IsNull(x) == x = {}
Val(x) == CHOOSE v \in x : TRUE

----------------------------------------------------------------------------
(* Value normalizers (DATA PARSING HELPERS) *)

\* hundredths per unit: the model's fixed-point scale for JavaScript numbers
PriceScale == 100

\* source ids (getDefaultSettings)
NikeId == << "n","i","k","e" >>
JordanId == << "j","o","r","d","a","n" >>
AdidasId == << "a","d","i","d","a","s" >>
PumaId == << "p","u","m","a" >>

\* the brandId argument left out: normalizeSku(sku)
NoBrand == << >>

normalizeSku(sku, brandId) ==
    IF sku = << >> THEN << >>
    ELSE LET normalized == trim(sku)
         IN  IF brandId = NikeId \/ brandId = JordanId
             THEN HyphensToSpaces(normalized)
             ELSE normalized

\* value.replace(/[^0-9.-]+/g, "")
CleanPrice(s) == SelectSeq(s, LAMBDA c : c \in Range(Digits) \cup { ".", "-" })

RECURSIVE DigitPrefix(_)
DigitPrefix(s) ==
    IF s # << >> /\ Head(s) \in Range(Digits)
    THEN << Head(s) >> \o DigitPrefix(Tail(s))
    ELSE << >>

DigitVal(c) == IndexIn(c, Digits) - 1

RECURSIVE IntVal(_)
IntVal(ds) ==
    IF ds = << >> THEN 0
    ELSE 10 * IntVal(SubSeq(ds, 1, Len(ds) - 1)) + DigitVal(ds[Len(ds)])

RECURSIVE Pow10(_)
Pow10(n) == IF n = 0 THEN 1 ELSE 10 * Pow10(n - 1)

\* the fraction digits ds as hundredths (digits past the scale are dropped)
RECURSIVE FracVal(_, _)
FracVal(ds, pos) ==
    IF ds = << >> THEN 0
    ELSE (DigitVal(Head(ds)) * PriceScale) \div Pow10(pos) + FracVal(Tail(ds), pos + 1)

\* parseFloat on a string of digits, "." and "-": the longest prefix that is a
\* decimal literal ([-]digits[.digits]); NaN (null here) when there is none
parseFloat(s) ==
    LET neg == s # << >> /\ Head(s) = "-"
        body == IF neg THEN Tail(s) ELSE s
        ip == DigitPrefix(body)
        rest == SubSeq(body, Len(ip) + 1, Len(body))
        fp == IF rest # << >> /\ Head(rest) = "." THEN DigitPrefix(Tail(rest)) ELSE << >>
        mag == IntVal(ip) * PriceScale + FracVal(fp, 1)
    IN  IF ip = << >> /\ fp = << >> THEN Null
        ELSE Some(IF neg THEN 0 - mag ELSE mag)

\* value is a nullable string; the result a nullable number
parsePrice(value) ==
    IF IsNull(value) THEN Null ELSE parseFloat(CleanPrice(Val(value)))

\* !isNaN(new Date(value).getTime()) for the cells the sheets hold here: a
\* date in the form YYYY-MM-DD (month 01..12, a day every month has) is a
\* date, a cell that is not of that form (a word, a price, a blank) is not
IsIsoDate(value) ==
    /\ Len(value) = 10
    /\ value[5] = "-" /\ value[8] = "-"
    /\ \A i \in { 1, 2, 3, 4, 6, 7, 9, 10 } : value[i] \in Range(Digits)
    /\ IntVal(SubSeq(value, 6, 7)) \in 1 .. 12
    /\ IntVal(SubSeq(value, 9, 10)) \in 1 .. 28

\* value is a string; the result the nullable string stored
parseDate(value) ==
    LET strValue == toUpperCase(trim(value))
    IN  IF \/ strValue = << >>
           \/ strValue = << "A","L","W","A","Y","S"," ","O","N" >>
           \/ strValue = << "-" >>
        THEN Null
        ELSE IF IsIsoDate(value) THEN Some(value)
        ELSE Null

----------------------------------------------------------------------------
(* Column mapper *)

\* mutant of colLetterToIndex: the letter not upper-cased
colLetterToIndexAsTyped(letter) ==
    IF IsNull(letter) \/ Val(letter) = << >> THEN -1
    ELSE LET cleanLetter == trim(Val(letter))
         IN  IF Len(cleanLetter) # 1 \/ cleanLetter[1] \notin Range(UpperLetters)
             THEN -1
             ELSE IndexIn(cleanLetter[1], UpperLetters) - 1

\* letter is a nullable string; -1 is "not found"
colLetterToIndex(letter) ==
    IF IsNull(letter) \/ Val(letter) = << >> THEN -1
    ELSE LET cleanLetter == toUpperCase(trim(Val(letter)))
         IN  IF Len(cleanLetter) # 1 \/ cleanLetter[1] \notin Range(UpperLetters)
             THEN -1
             ELSE IndexIn(cleanLetter[1], UpperLetters) - 1

----------------------------------------------------------------------------
(* Settings: the data sources of getDefaultSettings that the model keeps   *)
(* (puma, nike, adidas, jordan), with the fields the settings dialog edits *)
(* (url, headerRow, tolerance, enabled, column letters) set to small       *)
(* values.  url is modelled by its truthiness.                             *)

PumaName == << "P","u","m","a" >>
NikeName == << "N","i","k","e"," ","/"," ","J","o","r","d","a","n" >>
AdidasName == << "A","d","i","d","a","s" >>
JordanName == << "J","o","r","d","a","n" >>

\* source.tolerance of getDefaultSettings: 0.05
DefaultTolerance == 5

ColA == Some(<< "A" >>)
ColB == Some(<< "B" >>)
ColC == Some(<< "C" >>)
ColBlank == Some(<< >>)

Source(id, name, url, enabled, headerRow, tolerance, columns) ==
    [ id |-> id, name |-> name, url |-> url, enabled |-> enabled,
      headerRow |-> headerRow, tolerance |-> tolerance, columns |-> columns ]

UploadColumnMapping == [ sku |-> "sku", price |-> "price", salePrice |-> "salePrice" ]

\* promo is the letter of the Adidas promotion (MAP window) column
SettingsWith(promo, pumaUrl) ==
    [ dataSources |->
        << Source(PumaId, PumaName, pumaUrl, TRUE, 1, DefaultTolerance,
                  [ sku |-> ColA, price |-> ColB ]),
           Source(NikeId, NikeName, TRUE, TRUE, 2, DefaultTolerance,
                  [ sku |-> ColA, price |-> ColB ]),
           Source(AdidasId, AdidasName, TRUE, TRUE, 1, DefaultTolerance,
                  [ sku |-> ColA, price |-> ColB, promotion |-> promo ]),
           Source(JordanId, JordanName, TRUE, FALSE, 2, DefaultTolerance,
                  [ sku |-> ColA, price |-> ColB ]) >>,
      uploadColumnMapping |-> UploadColumnMapping ]

\* tolerances the settings dialog can set: 5.00 and 0
WideTolerance == 500
NoTolerance == 0

\* the settings of the reconciliation checks: all three feeds enabled, Puma
\* with a tolerance of 5.00, Nike of 0.05, Adidas of 0
ReconSettings ==
    [ dataSources |->
        << Source(PumaId, PumaName, TRUE, TRUE, 1, WideTolerance,
                  [ sku |-> ColA, price |-> ColB ]),
           Source(NikeId, NikeName, TRUE, TRUE, 2, DefaultTolerance,
                  [ sku |-> ColA, price |-> ColB ]),
           Source(AdidasId, AdidasName, TRUE, TRUE, 1, NoTolerance,
                  [ sku |-> ColA, price |-> ColB, promotion |-> ColC ]) >>,
      uploadColumnMapping |-> UploadColumnMapping ]

\* settings.dataSources.filter(s => s.enabled && s.url)
\* mutant of EnabledSources: no source is skipped
EnabledSourcesAll(st) == st.dataSources

EnabledSources(st) == SelectSeq(st.dataSources, LAMBDA s : s.enabled /\ s.url)

----------------------------------------------------------------------------
(* Status log.  An entry keeps the level (type) of addLog; the message     *)
(* text is kept as its kind, the source name, the count it prints and, for *)
(* a failed source, which step threw (the error.message it prints).        *)

Entry(type, kind, src, n) ==
    [ type |-> type, kind |-> kind, src |-> src, n |-> n, why |-> "" ]

\* `[name] Import failed: ${message}`
FailEntry(src, why) ==
    [ type |-> "error", kind |-> "failed", src |-> src, n |-> 0, why |-> why ]

NoSrc == << >>

----------------------------------------------------------------------------
(* Source import pipeline: the part of runImport between the awaited fetch *)
(* and the awaited saveProducts, for one source.                           *)
(* A sheet (allRows) is a sequence of rows, a row a sequence of cells.     *)

MapToken == << "M","A","P" >>

PriceFields == { "price", "msrp", "exceptionPrice" }

\* mutant of IsMapRow: the marker compared as it is typed
IsMapRowAsTyped(row, mapWindowIndex) ==
    /\ mapWindowIndex < Len(row)
    /\ row[mapWindowIndex + 1] = MapToken

\* row[mapWindowIndex]?.trim().toUpperCase() === 'MAP'
IsMapRow(row, mapWindowIndex) ==
    /\ mapWindowIndex < Len(row)
    /\ toUpperCase(trim(row[mapWindowIndex + 1])) = MapToken

\* the field names of COLUMN_MAPPINGS, spelled out
FieldName ==
    [ season |-> << "s","e","a","s","o","n" >>,
      category |-> << "c","a","t","e","g","o","r","y" >>,
      styleCode |-> << "s","t","y","l","e","C","o","d","e" >>,
      sku |-> << "s","k","u" >>,
      productName |-> << "p","r","o","d","u","c","t","N","a","m","e" >>,
      color |-> << "c","o","l","o","r" >>,
      gender |-> << "g","e","n","d","e","r" >>,
      ageGroup |-> << "a","g","e","G","r","o","u","p" >>,
      class |-> << "c","l","a","s","s" >>,
      price |-> << "p","r","i","c","e" >>,
      promotion |-> << "p","r","o","m","o","t","i","o","n" >>,
      exceptionPrice |-> << "e","x","c","e","p","t","i","o","n","P","r","i","c","e" >>,
      exception |-> << "e","x","c","e","p","t","i","o","n" >>,
      mapStartDate |-> << "m","a","p","S","t","a","r","t","D","a","t","e" >>,
      mapEndDate |-> << "m","a","p","E","n","d","D","a","t","e" >> ]

\* field.toLowerCase().includes('date')
IsDateField(field) == includes(toLowerCase(FieldName[field]), << "d","a","t","e" >>)

\* mutant of MapField: a date field stored as the raw cell
MapFieldDatesRaw(field, columnLetter, row) ==
    LET columnIndex == colLetterToIndex(columnLetter)
    IN  IF columnIndex # -1 /\ columnIndex < Len(row)
        THEN IF field \in PriceFields
             THEN parsePrice(Some(row[columnIndex + 1]))
             ELSE Some(row[columnIndex + 1])
        ELSE Null

\* one field of one row: the value stored under `field` (nullable)
MapField(field, columnLetter, row) ==
    LET columnIndex == colLetterToIndex(columnLetter)
    IN  IF columnIndex # -1 /\ columnIndex < Len(row)
        THEN IF field \in PriceFields
             THEN parsePrice(Some(row[columnIndex + 1]))
             ELSE IF IsDateField(field)
                  THEN parseDate(row[columnIndex + 1])
                  ELSE Some(row[columnIndex + 1])
        ELSE Null

\* the product built from one row, before the rows without sku are dropped
MapRow(source, row) ==
    LET mapping == source.columns
        raw == [ f \in DOMAIN mapping \cup { "brand", "tolerance" } |->
                   IF f = "brand" THEN source.name
                   ELSE IF f = "tolerance" THEN source.tolerance
                   ELSE MapField(f, mapping[f], row) ]
    IN  IF "sku" \in DOMAIN raw /\ ~IsNull(raw.sku) /\ Val(raw.sku) # << >>
        THEN [ raw EXCEPT !.sku = Some(normalizeSku(Val(raw.sku), source.id)) ]
        ELSE raw

\* mutant of HasSku: no product is dropped
HasSkuOrNot(p) == TRUE

\* p.sku is truthy
HasSku(p) == "sku" \in DOMAIN p /\ ~IsNull(p.sku) /\ Val(p.sku) # << >>

RECURSIVE MapRows(_, _)
MapRows(source, rows) ==
    IF rows = << >> THEN << >>
    ELSE LET p == MapRow(source, Head(rows))
         IN  (IF HasSku(p) THEN << p >> ELSE << >>) \o MapRows(source, Tail(rows))

\* mutant of ProcessSheet: the rows are sliced from the header row itself,
\* and a header row beyond the sheet yields no rows
ProcessSheetFromHeader(source, allRows) ==
    LET dataRows == SubSeq(allRows, source.headerRow, Len(allRows))
        isAdidas == source.id = AdidasId
        mapWindowIndex == IF isAdidas THEN colLetterToIndex(source.columns.promotion) ELSE -1
        processedDataRows ==
            IF isAdidas /\ mapWindowIndex # -1
            THEN SelectSeq(dataRows, LAMBDA row : IsMapRow(row, mapWindowIndex))
            ELSE dataRows
    IN  [ ok |-> TRUE,
          logs |-> << Entry("info", "header", source.name, 0) >>
                   \o (IF ~isAdidas THEN << >>
                       ELSE IF mapWindowIndex # -1
                            THEN << Entry("info", "filtered", source.name,
                                          Len(processedDataRows)) >>
                            ELSE << Entry("error", "warning", source.name, 0) >>),
          products |-> MapRows(source, processedDataRows) ]

\* The outcome of one source once its sheet is fetched and parsed:
\*   ok     FALSE when the code throws (header row out of bounds),
\*   logs   the entries added on the way,
\*   products   the batch handed to saveProducts.
ProcessSheet(source, allRows) ==
    IF Len(allRows) < source.headerRow \/ source.headerRow < 1
    THEN [ ok |-> FALSE, logs |-> << >>, products |-> << >> ]
    ELSE
      LET dataRows == SubSeq(allRows, source.headerRow + 1, Len(allRows))
          preview == << Entry("info", "header", source.name, 0) >>
          isAdidas == source.id = AdidasId
          mapWindowIndex == IF isAdidas THEN colLetterToIndex(source.columns.promotion) ELSE -1
          processedDataRows ==
              IF isAdidas /\ mapWindowIndex # -1
              THEN SelectSeq(dataRows, LAMBDA row : IsMapRow(row, mapWindowIndex))
              ELSE dataRows
          filterLog ==
              IF ~isAdidas THEN << >>
              ELSE IF mapWindowIndex # -1
                   THEN << Entry("info", "filtered", source.name, Len(processedDataRows)) >>
                   ELSE << Entry("error", "warning", source.name, 0) >>
      IN  [ ok |-> TRUE, logs |-> preview \o filterLog,
            products |-> MapRows(source, processedDataRows) ]

----------------------------------------------------------------------------
(* Product store (IndexedDB object store 'products', keyPath 'id',         *)
(* autoIncrement).  The store is the sequence getAll returns: the records  *)
(* in key order.  The key generator (nextId) is not reset by clear().      *)

WithId(p, id) == [ f \in DOMAIN p \cup { "id" } |-> IF f = "id" THEN id ELSE p[f] ]

\* the records a committed saveProducts(batch) adds, keys from `first` on
Stored(batch, first) == [ i \in DOMAIN batch |-> WithId(batch[i], first + i - 1) ]

Ids(ps) == { ps[i].id : i \in DOMAIN ps }

----------------------------------------------------------------------------
(* Reconciliation (the complete callback of handleUploadPrices).           *)
(* An uploaded row is a record with the nullable cells sku, price and      *)
(* salePrice (the headers of settings.uploadColumnMapping).                *)

\* mutant of IndexKey: the Nike normalization applied to every brand
IndexKeyHyphensToSpaces(p) ==
    normalizeSku(IF IsNull(p.sku) THEN << >> ELSE Val(p.sku), NikeId)

\* the key vendorProductMap files a product under
IndexKey(p) ==
    LET brandLower == toLowerCase(p.brand)
        brandId == IF includes(brandLower, NikeId) THEN NikeId ELSE brandLower
    IN  normalizeSku(IF IsNull(p.sku) THEN << >> ELSE Val(p.sku), brandId)

\* the Map built by products.forEach(p => map.set(key, p)): for each key the
\* last product filed under it
vendorProductMap(ps) ==
    [ k \in { IndexKey(ps[i]) : i \in DOMAIN ps } |->
        LET last == CHOOSE i \in DOMAIN ps :
                        /\ IndexKey(ps[i]) = k
                        /\ \A j \in DOMAIN ps : IndexKey(ps[j]) = k => j <= i
        IN  ps[last] ]

\* vendorProductMap.get(key), nullable
MapGet(map, key) == IF key \in DOMAIN map THEN Some(map[key]) ELSE Null

\* mutant of skuVariations: the candidate with the hyphens removed left out
skuVariationsKeepHyphens(retailerSkuRaw) ==
    << retailerSkuRaw,
       HyphensToSpaces(retailerSkuRaw),
       RemoveAll(retailerSkuRaw, " ") >>

\* the candidates in the order the Set holds them
skuVariations(retailerSkuRaw) ==
    << retailerSkuRaw,
       HyphensToSpaces(retailerSkuRaw),
       RemoveAll(retailerSkuRaw, " "),
       RemoveAll(retailerSkuRaw, "-") >>

\* mutant of LookupCandidate: a candidate that misses both lookups is given
\* some record of the index
LookupCandidateOrAny(map, sku) ==
    LET general == MapGet(map, normalizeSku(sku, NoBrand))
        nikeJordanMatch == MapGet(map, normalizeSku(sku, NikeId))
    IN  IF ~IsNull(general) THEN general
        ELSE IF ~IsNull(nikeJordanMatch) THEN nikeJordanMatch
        ELSE IF DOMAIN map = {} THEN Null
        ELSE Some(map[CHOOSE key \in DOMAIN map : TRUE])

\* the two lookups made for one candidate
LookupCandidate(map, sku) ==
    LET general == MapGet(map, normalizeSku(sku, NoBrand))
    IN  IF ~IsNull(general) THEN general
        ELSE MapGet(map, normalizeSku(sku, NikeId))

\* mutant of FirstHit: the candidates tried from the last to the first
RECURSIVE FirstHitFromLast(_, _)
FirstHitFromLast(map, candidates) ==
    IF candidates = << >> THEN Null
    ELSE LET hit == LookupCandidate(map, candidates[Len(candidates)])
         IN  IF ~IsNull(hit) THEN hit
             ELSE FirstHitFromLast(map, SubSeq(candidates, 1, Len(candidates) - 1))

RECURSIVE FirstHit(_, _)
FirstHit(map, candidates) ==
    IF candidates = << >> THEN Null
    ELSE LET hit == LookupCandidate(map, Head(candidates))
         IN  IF ~IsNull(hit) THEN hit ELSE FirstHit(map, Tail(candidates))

\* mutant of FindVendorProduct: only the SKU as uploaded is looked up
FindVendorProductExactOnly(map, retailerSkuRaw) ==
    MapGet(map, normalizeSku(retailerSkuRaw, NoBrand))

\* the vendorProduct found for an uploaded SKU (nullable)
FindVendorProduct(map, retailerSkuRaw) == FirstHit(map, skuVariations(retailerSkuRaw))

\* String(row[mapping.sku] || '').trim()
RetailerSkuRaw(row) == IF IsNull(row.sku) THEN << >> ELSE trim(Val(row.sku))

\* row[mapping.salePrice] ? parsePrice(row[mapping.salePrice]) : null
SalePriceOf(row) ==
    IF IsNull(row.salePrice) \/ Val(row.salePrice) = << >> THEN Null
    ELSE parsePrice(row.salePrice)

\* mutant of PriceToCheck: the sale price ignored
PriceToCheckRegularOnly(ourPrice, salePrice) == ourPrice

PriceToCheck(ourPrice, salePrice) ==
    IF ~IsNull(salePrice) THEN Val(salePrice) ELSE ourPrice

\* vendorProduct.tolerance || 0
ToleranceOf(vendorProduct) ==
    IF "tolerance" \in DOMAIN vendorProduct THEN vendorProduct.tolerance ELSE 0

\* mutant of IsViolationOf: a price at the floor flagged as well
IsViolationAtFloorToo(priceToCheck, mapPrice, tolerance) ==
    priceToCheck <= (mapPrice - tolerance)

IsViolationOf(priceToCheck, mapPrice, tolerance) ==
    priceToCheck < (mapPrice - tolerance)

\* mutant of DifferenceOf: measured from the tolerance floor
DifferenceFromFloor(priceToCheck, mapPrice, tolerance) ==
    priceToCheck - (mapPrice - tolerance)

DifferenceOf(priceToCheck, mapPrice, tolerance) == priceToCheck - mapPrice

\* the value set in priceDataMap for a row matched to vendorProduct
Annotation(vendorProduct, ourPrice, salePrice) ==
    LET mapPrice == Val(vendorProduct.price)
        priceToCheck == PriceToCheck(ourPrice, salePrice)
        tolerance == ToleranceOf(vendorProduct)
    IN  [ ourPrice |-> ourPrice, salePrice |-> salePrice, mapPrice |-> mapPrice,
          isViolation |-> IsViolationOf(priceToCheck, mapPrice, tolerance),
          difference |-> DifferenceOf(priceToCheck, mapPrice, tolerance) ]

\* mutant of CheckRow: a price that is null, of the row or of the matched
\* record, is taken as 0 and the row is judged all the same
CheckRowNullAsZero(map, row) ==
    LET retailerSkuRaw == RetailerSkuRaw(row)
        vendorProduct == FindVendorProduct(map, retailerSkuRaw)
        ourPrice == parsePrice(row.price)
    IN  IF retailerSkuRaw = << >> \/ IsNull(vendorProduct) THEN Null
        ELSE Some([ id |-> Val(vendorProduct).id,
                    ann |-> Annotation(
                        [ Val(vendorProduct) EXCEPT
                            !.price = IF IsNull(@) THEN Some(0) ELSE @ ],
                        IF IsNull(ourPrice) THEN 0 ELSE Val(ourPrice),
                        SalePriceOf(row)) ])

\* What one uploaded row adds to priceDataMap: null, or the pair of the
\* matched product's id and its annotation.
CheckRow(map, row) ==
    LET retailerSkuRaw == RetailerSkuRaw(row)
        vendorProduct == FindVendorProduct(map, retailerSkuRaw)
        ourPrice == parsePrice(row.price)
    IN  IF retailerSkuRaw = << >> \/ IsNull(vendorProduct) THEN Null
        ELSE IF IsNull(Val(vendorProduct).price) \/ IsNull(ourPrice) THEN Null
        ELSE Some([ id |-> Val(vendorProduct).id,
                    ann |-> Annotation(Val(vendorProduct), Val(ourPrice), SalePriceOf(row)) ])

\* mutant of LastRowFor: the first row set for id is the one kept
FirstRowFor(map, rows, id) ==
    CHOOSE i \in DOMAIN rows :
        /\ ~IsNull(CheckRow(map, rows[i])) /\ Val(CheckRow(map, rows[i])).id = id
        /\ \A j \in DOMAIN rows :
             (~IsNull(CheckRow(map, rows[j])) /\ Val(CheckRow(map, rows[j])).id = id) => i <= j

\* the row whose annotation priceDataMap holds for id: the last one set
LastRowFor(map, rows, id) ==
    CHOOSE i \in DOMAIN rows :
        /\ ~IsNull(CheckRow(map, rows[i])) /\ Val(CheckRow(map, rows[i])).id = id
        /\ \A j \in DOMAIN rows :
             (~IsNull(CheckRow(map, rows[j])) /\ Val(CheckRow(map, rows[j])).id = id) => j <= i

\* priceDataMap after the forEach over the rows: id -> annotation
PriceDataMap(map, rows) ==
    LET hits == { i \in DOMAIN rows : ~IsNull(CheckRow(map, rows[i])) }
        ids == { Val(CheckRow(map, rows[i])).id : i \in hits }
    IN  [ id \in ids |-> Val(CheckRow(map, rows[LastRowFor(map, rows, id)])).ann ]

AnnotationFields == { "ourPrice", "salePrice", "mapPrice", "isViolation", "difference" }

\* the four fields handleClearPriceCheck takes off a product
ClearedFields == { "ourPrice", "salePrice", "isViolation", "difference" }

\* { ...p, ...priceDataMap.get(p.id) }
Merge(p, ann) ==
    [ f \in DOMAIN p \cup DOMAIN ann |-> IF f \in DOMAIN ann THEN ann[f] ELSE p[f] ]

\* const { ourPrice, salePrice, isViolation, difference, ...rest } = p
Rest(p) == [ f \in DOMAIN p \ ClearedFields |-> p[f] ]

\* the updater handleClearPriceCheck passes to setProducts
ClearProducts(ps) == [ i \in DOMAIN ps |-> Rest(ps[i]) ]

\* the updater the complete callback passes to setProducts
UpdatedProducts(ps, priceDataMap) ==
    [ i \in DOMAIN ps |->
        IF ps[i].id \in DOMAIN priceDataMap
        THEN Merge(ps[i], priceDataMap[ps[i].id])
        ELSE ps[i] ]

Abs(n) == IF n < 0 THEN 0 - n ELSE n

RECURSIVE SumAbsDifference(_)
SumAbsDifference(ps) ==
    IF ps = << >> THEN 0
    ELSE Abs(IF "difference" \in DOMAIN Head(ps) THEN Head(ps).difference ELSE 0)
         + SumAbsDifference(Tail(ps))

IsTrue(p, f) == f \in DOMAIN p /\ p[f] = TRUE

\* Object.entries(brandsAffectedMap): one entry per brand, in the order the
\* brands first occur among ps
RECURSIVE BrandCounts(_, _)
BrandCounts(ps, all) ==
    IF ps = << >> THEN << >>
    ELSE LET b == Head(ps).brand
             rest == SelectSeq(Tail(ps), LAMBDA q : q.brand # b)
         IN  << [ name |-> b, count |-> Len(SelectSeq(all, LAMBDA q : q.brand = b)) ] >>
             \o BrandCounts(rest, all)

\* Array.prototype.sort((a, b) => b.count - a.count): stable, descending
RECURSIVE InsertByCount(_, _)
InsertByCount(e, sorted) ==
    IF sorted = << >> THEN << e >>
    ELSE IF Head(sorted).count >= e.count
         THEN << Head(sorted) >> \o InsertByCount(e, Tail(sorted))
         ELSE << e >> \o sorted

\* mutant of SortByCountDesc: the entries stay in the order of Object.entries
SortByCountAsListed(es) == es

RECURSIVE SortByCountDesc(_)
SortByCountDesc(es) ==
    IF es = << >> THEN << >>
    ELSE InsertByCount(es[Len(es)], SortByCountDesc(SubSeq(es, 1, Len(es) - 1)))

\* the argument of setPriceCheckStats
PriceCheckStats(updatedProducts, priceDataMap) ==
    LET checkedAndUpdatedProducts ==
            SelectSeq(updatedProducts, LAMBDA p : p.id \in DOMAIN priceDataMap)
        violationsFromProducts ==
            SelectSeq(checkedAndUpdatedProducts, LAMBDA p : IsTrue(p, "isViolation"))
        withBrand == SelectSeq(violationsFromProducts, LAMBDA p : p.brand # << >>)
    IN  [ productsChecked |-> Cardinality(DOMAIN priceDataMap),
          totalSavingsAtRisk |-> SumAbsDifference(violationsFromProducts),
          brandsAffected |-> SortByCountDesc(BrandCounts(withBrand, withBrand)) ]

----------------------------------------------------------------------------
(* Sample inputs: the sheets the feeds may return and the price files the  *)
(* user may upload.                                                        *)

Hdr == << "h" >>

\* Puma (headerRow 1): a hyphenated SKU
PumaSheet == << << Hdr, Hdr >>,
                << << "P","-","1" >>, << "5","0" >> >> >>

\* Nike (headerRow 2): "N-1" at $120.00, a row with a blank SKU
NikeSheet == << << Hdr >>, << Hdr, Hdr >>,
                << << "N","-","1" >>, << "$","1","2","0",".","0","0" >> >>,
                << << " " >>, << "9" >> >> >>

\* a sheet with fewer rows than Nike's headerRow
ShortSheet == << << Hdr >> >>

\* Adidas (headerRow 1): one MAP row, one row outside the MAP window
AdidasSheet == << << Hdr, Hdr, Hdr >>,
                  << << "A","1" >>, << "1","0","0" >>, << "m","a","p"," " >> >>,
                  << << "A","2" >>, << "N","/","A" >>, << "x" >> >> >>

NewBalanceId == << "n","e","w","_","b","a","l","a","n","c","e" >>
VansId == << "v","a","n","s" >>

\* New Balance: five rows, each with a SKU; prices "-5.00", "N/A", "12.5"
NewBalanceSheet ==
    << << Hdr, Hdr >>, << Hdr, Hdr >>,
       << << "N","B","1" >>, << "-","5",".","0","0" >> >>,
       << << "N","B","2" >>, << "N","/","A" >> >>,
       << << "N","B","3" >>, << "1","2",".","5" >> >> >>

\* Vans (price in column A, SKU in column B): a header row and three rows,
\* the second with a blank SKU
VansSheet ==
    << << Hdr, Hdr >>,
       << << "1","0" >>, << "V","1" >> >>,
       << << "8" >>, << " " >> >>,
       << << "$","1",",","2","3","4",".","5","0" >>, << "V","-","3" >> >> >>

\* Vans: a row without a SKU cell, a row with an empty one, a row with a SKU
VansGaps ==
    << << Hdr, Hdr >>,
       << << "9" >> >>,
       << << "7" >>, << >> >>,
       << << "6" >>, << "V","9" >> >> >>

\* the sheets a fetch of the source may resolve with
SheetsOf(source) ==
    IF source.id = PumaId THEN { PumaSheet }
    ELSE IF source.id = AdidasId THEN { AdidasSheet }
    ELSE IF source.id = NewBalanceId THEN { NewBalanceSheet }
    ELSE IF source.id = VansId THEN { VansSheet, VansGaps }
    ELSE { NikeSheet, ShortSheet }

Row(sku, price, salePrice) == [ sku |-> sku, price |-> price, salePrice |-> salePrice ]

\* "N-1" at 114.00, no sale price column
FileNike == << Row(Some(<< "N","-","1" >>), Some(<< "1","1","4",".","0","0" >>), Null) >>

\* "P-1" at 50 with a blank sale price, "A1" at 110 on sale at 90
FileMixed == << Row(Some(<< "P","-","1" >>), Some(<< "5","0" >>), Some(<< >>)),
                Row(Some(<< "A","1" >>), Some(<< "1","1","0" >>), Some(<< "9","0" >>)) >>

Files == { FileNike, FileMixed }

----------------------------------------------------------------------------
(* State *)

VARIABLES
    settings,           \* useSettings(): the settings in effect
    store,              \* the IndexedDB object store, in key order
    nextId,             \* its key generator
    logs,               \* App state: the status log
    isImporting,        \* App state
    products,           \* App state: the in-memory product set
    hasPriceCheckData,  \* App state
    checkedProductIds,  \* App state: nullable set of ids
    priceCheckStats,    \* App state: nullable PriceCheckStats
    filters,            \* App state: the violationsOnly switch of filters
    pc,                 \* where handleImport is suspended: idle, clearing,
                        \* fetching, saving, loading, rejected
    cur,                \* runImport: position in the enabled sources
    totalProducts,      \* runImport: let totalProducts
    batch,              \* runImport: the products awaiting saveProducts
    mountPending,       \* the fetchAllProducts of the mount effect is awaited
    parsing,            \* Papa.parse calls in flight: rows and the
                        \* vendorProductMap of the render that started them
    nUser,              \* user actions so far
    staleIds,           \* history: ids in the store when the run started
    lastCheck,          \* history: the rows, the vendorProductMap and the
                        \* priceDataMap of the latest completed
                        \* reconciliation, emptied by every clear
    call                \* a helper applied on its own: the function, its
                        \* arguments and the values it returned so far

vars == << settings, store, nextId, logs, isImporting, products, hasPriceCheckData,
           checkedProductIds, priceCheckStats, filters, pc, cur, totalProducts,
           batch, mountPending, parsing, nUser, staleIds, lastCheck, call >>

\* everything but call
appVars == << settings, store, nextId, logs, isImporting, products, hasPriceCheckData,
              checkedProductIds, priceCheckStats, filters, pc, cur, totalProducts,
              batch, mountPending, parsing, nUser, staleIds, lastCheck >>

\* no helper is applied on its own
NoCall == [ fn |-> "none", arg |-> << >>, brandId |-> << >>, out |-> << >> ]

importVars == << store, nextId, isImporting, pc, cur, totalProducts, batch, staleIds >>
checkVars == << hasPriceCheckData, checkedProductIds, priceCheckStats, filters >>

\* user actions (import clicks, uploads, clear clicks) in one behaviour
MaxUserActions == 2

NoMap == [ id \in {} |-> 0 ]

NoCheck == [ rows |-> << >>, map |-> NoMap, data |-> NoMap ]

\* the store an earlier session's import leaves: every enabled source's
\* first sheet, imported in order
RECURSIVE PriorBatches(_, _)
PriorBatches(sources, sheetOf) ==
    IF sources = << >> THEN << >>
    ELSE ProcessSheet(Head(sources), sheetOf[Head(sources).id]).products
         \o PriorBatches(Tail(sources), sheetOf)

PriorSheets ==
    [ id \in { PumaId, NikeId, AdidasId, JordanId } |->
        IF id = PumaId THEN PumaSheet ELSE IF id = AdidasId THEN AdidasSheet ELSE NikeSheet ]

PriorStore(st) == Stored(PriorBatches(EnabledSources(st), PriorSheets), 1)

SettingsChoices ==
    { SettingsWith(ColC, FALSE), SettingsWith(ColBlank, FALSE) }

InitWith(starts) ==
    /\ \E start \in starts : settings = start.settings /\ store = start.store
    /\ nextId = Len(store) + 1
    /\ logs = << >>
    /\ isImporting = FALSE
    /\ products = << >>
    /\ hasPriceCheckData = FALSE
    /\ checkedProductIds = Null
    /\ priceCheckStats = Null
    /\ filters = [ violationsOnly |-> FALSE ]
    /\ pc = "idle"
    /\ cur = 0
    /\ totalProducts = 0
    /\ batch = << >>
    /\ mountPending = TRUE
    /\ parsing = << >>
    /\ nUser = 0
    /\ staleIds = {}
    /\ lastCheck = NoCheck

Starts == { [ settings |-> st, store |-> s ] : st \in SettingsChoices, s \in { << >> } } \cup
          { [ settings |-> st, store |-> PriorStore(st) ] : st \in SettingsChoices }

Init == InitWith(Starts) /\ call = NoCall

----------------------------------------------------------------------------
(* handleClearPriceCheck and fetchAllProducts *)

\* handleClearPriceCheck, run on the product set ps; `after` are the entries
\* the calling handler logs next
ClearPriceCheck(ps, after) ==
    /\ products' = ClearProducts(ps)
    /\ hasPriceCheckData' = FALSE
    /\ checkedProductIds' = Null
    /\ priceCheckStats' = Null
    /\ filters' = [ filters EXCEPT !.violationsOnly = FALSE ]
    /\ logs' = Append(logs, Entry("info", "clearCheck", NoSrc, 0)) \o after
    /\ lastCheck' = NoCheck

\* the Clear Check button (rendered when products exist and hasPriceCheckData)
handleClearPriceCheck ==
    /\ nUser < MaxUserActions
    /\ products # << >>
    /\ hasPriceCheckData
    /\ nUser' = nUser + 1
    /\ ClearPriceCheck(products, << >>)
    /\ UNCHANGED << call, settings, importVars, mountPending, parsing >>

\* fetchAllProducts after getAllProducts resolved with allProducts
fetchAllProducts(allProducts) ==
    LET hasPriceCheck == \E i \in DOMAIN allProducts : "isViolation" \in DOMAIN allProducts[i]
    IN  IF hasPriceCheck
        THEN /\ products' = allProducts
             /\ hasPriceCheckData' = TRUE
             /\ UNCHANGED << checkedProductIds, priceCheckStats, filters, logs, lastCheck >>
        ELSE ClearPriceCheck(allProducts, << >>)

\* useEffect(() => { fetchAllProducts(); }, []): the read of the mount
\* effect resolves.  Its transaction was created before any clear, so it
\* reads the store as it was at start.
MountLoaded ==
    /\ mountPending
    /\ mountPending' = FALSE
    /\ fetchAllProducts(store)
    /\ UNCHANGED << call, settings, importVars, parsing, nUser >>

----------------------------------------------------------------------------
(* handleImport / runImport *)

SourceAt(k) == EnabledSources(settings)[k]

\* mutant of NextSource: the next source is started before the entry that
\* ends the one before it
NextSourceEarly(k, lg, total) ==
    IF k < Len(EnabledSources(settings))
    THEN /\ pc' = "fetching"
         /\ cur' = k + 1
         /\ logs' = SubSeq(lg, 1, Len(lg) - 1)
                    \o << Entry("info", "sourceStart", SourceAt(k + 1).name, 0), lg[Len(lg)] >>
    ELSE /\ pc' = "loading"
         /\ cur' = 0
         /\ logs' = Append(lg, Entry("info", "finished", NoSrc, total))

\* the top of the for loop after k sources: the next source is started, or
\* the loop ends, the summary is logged and fetchAllProducts is awaited
NextSource(k, lg, total) ==
    IF k < Len(EnabledSources(settings))
    THEN /\ pc' = "fetching"
         /\ cur' = k + 1
         /\ logs' = Append(lg, Entry("info", "sourceStart", SourceAt(k + 1).name, 0))
    ELSE /\ pc' = "loading"
         /\ cur' = 0
         /\ logs' = Append(lg, Entry("info", "finished", NoSrc, total))

\* mutant of SourceFailed: the failure of a source ends the loop
SourceFailedEndsRun(why) ==
    /\ pc' = "loading"
    /\ cur' = 0
    /\ logs' = logs \o << FailEntry(SourceAt(cur).name, why),
                          Entry("info", "finished", NoSrc, totalProducts) >>

\* the catch block of a source; `why` is the step that threw
SourceFailed(why) ==
    NextSource(cur, Append(logs, FailEntry(SourceAt(cur).name, why)), totalProducts)

\* Refresh Data / Import Now (both disabled while isImporting), up to
\* await clearProducts()
handleImport ==
    /\ nUser < MaxUserActions
    /\ ~isImporting
    /\ nUser' = nUser + 1
    /\ isImporting' = TRUE
    /\ logs' = << Entry("info", "start", NoSrc, 0) >>
    /\ pc' = "clearing"
    /\ staleIds' = Ids(store)
    /\ UNCHANGED << call, settings, store, nextId, products, checkVars, cur, totalProducts,
                    batch, mountPending, parsing, lastCheck >>

\* mutant of ClearedStore: clear() leaves the records in place
ClearedStoreKeepsAll(st) == st

\* the store after clear()
ClearedStore(st) == << >>

\* clearProducts() resolved
ClearDone ==
    /\ pc = "clearing"
    /\ ~mountPending
    /\ store' = ClearedStore(store)
    /\ totalProducts' = 0
    /\ NextSource(0, Append(logs, Entry("info", "cleared", NoSrc, 0)), 0)
    /\ UNCHANGED << call, settings, nextId, isImporting, products, checkVars, batch,
                    mountPending, parsing, nUser, staleIds, lastCheck >>

\* mutant of AfterClearFailed: the loop over the sources entered all the same
AfterClearFailedGoesOn(lg) == NextSource(0, lg, 0)

\* clearProducts() rejected: the error is logged and runImport returns
AfterClearFailed(lg) ==
    /\ pc' = "loading"
    /\ cur' = 0
    /\ logs' = lg

ClearFailed ==
    /\ pc = "clearing"
    /\ ~mountPending
    /\ AfterClearFailed(Append(logs, Entry("error", "clearError", NoSrc, 0)))
    /\ UNCHANGED << call, settings, store, nextId, isImporting, products, checkVars,
                    totalProducts, batch, mountPending, parsing, nUser, staleIds, lastCheck >>

\* fetchAndParseSheetData rejected (network failure, non-ok status, parse error)
FetchFailed ==
    /\ pc = "fetching"
    /\ SourceFailed("fetch")
    /\ UNCHANGED << call, settings, store, nextId, isImporting, products, checkVars,
                    totalProducts, batch, mountPending, parsing, nUser, staleIds, lastCheck >>

\* fetchAndParseSheetData resolved with allRows: the rows are sliced,
\* filtered and mapped, then saveProducts is awaited
FetchResolved ==
    /\ pc = "fetching"
    /\ \E allRows \in SheetsOf(SourceAt(cur)) :
         LET r == ProcessSheet(SourceAt(cur), allRows)
         IN  IF r.ok
             THEN /\ pc' = "saving"
                  /\ batch' = r.products
                  /\ logs' = logs \o r.logs
                  /\ cur' = cur
             ELSE /\ SourceFailed("headerRow")
                  /\ batch' = batch
    /\ UNCHANGED << call, settings, store, nextId, isImporting, products, checkVars,
                    totalProducts, mountPending, parsing, nUser, staleIds, lastCheck >>

\* saveProducts(products) resolved: the transaction committed every put
SaveDone ==
    /\ pc = "saving"
    /\ store' = store \o Stored(batch, nextId)
    /\ nextId' = nextId + Len(batch)
    /\ totalProducts' = totalProducts + Len(batch)
    /\ batch' = << >>
    /\ NextSource(cur,
                  Append(logs, Entry("success", "imported", SourceAt(cur).name, Len(batch))),
                  totalProducts + Len(batch))
    /\ UNCHANGED << call, settings, isImporting, products, checkVars, mountPending, parsing,
                    nUser, staleIds, lastCheck >>

\* mutant of SaveFailed: the puts made before the failure stay in the store
SaveFailedKeepsPuts ==
    /\ pc = "saving"
    /\ store' = store \o Stored(batch, nextId)
    /\ nextId' = nextId + Len(batch)
    /\ batch' = << >>
    /\ SourceFailed("save")
    /\ UNCHANGED << call, settings, isImporting, products, checkVars,
                    totalProducts, mountPending, parsing, nUser, staleIds, lastCheck >>

\* saveProducts(products) rejected: the transaction aborted, nothing is kept
SaveFailed ==
    /\ pc = "saving"
    /\ batch' = << >>
    /\ SourceFailed("save")
    /\ UNCHANGED << call, settings, store, nextId, isImporting, products, checkVars,
                    totalProducts, mountPending, parsing, nUser, staleIds, lastCheck >>

\* await fetchAllProducts() resolved, then setImporting(false)
LoadDone ==
    /\ pc = "loading"
    /\ pc' = "idle"
    /\ isImporting' = FALSE
    /\ fetchAllProducts(store)
    /\ UNCHANGED << call, settings, store, nextId, cur, totalProducts, batch, mountPending,
                    parsing, nUser, staleIds >>

\* getAllProducts() rejected: handleImport's promise rejects before
\* setImporting(false)
LoadFailed ==
    /\ pc = "loading"
    /\ pc' = "rejected"
    /\ UNCHANGED << call, settings, store, nextId, logs, isImporting, products, checkVars,
                    cur, totalProducts, batch, mountPending, parsing, nUser, staleIds,
                    lastCheck >>

----------------------------------------------------------------------------
(* handleUploadPrices *)

\* Check My Prices (rendered when products exist): the change event of the
\* file input, with the chosen file (nullable), up to Papa.parse
handleUploadPrices(files) ==
    /\ nUser < MaxUserActions
    /\ products # << >>
    /\ nUser' = nUser + 1
    /\ \E file \in { Null } \cup { Some(f) : f \in files } :
         IF IsNull(file)
         THEN /\ ClearPriceCheck(products, << >>)
              /\ parsing' = parsing
         ELSE /\ ClearPriceCheck(products, << Entry("info", "parsing", NoSrc, 0) >>)
              /\ parsing' = Append(parsing, [ rows |-> Val(file),
                                              map |-> vendorProductMap(products) ])
    /\ UNCHANGED << call, settings, importVars, mountPending >>

RemoveAt(q, i) == SubSeq(q, 1, i - 1) \o SubSeq(q, i + 1, Len(q))

\* mutant of CheckedProducts: the annotated products are written back to
\* the store
CheckedProductsPersisted(ps, priceDataMap) ==
    /\ products' = UpdatedProducts(ps, priceDataMap)
    /\ store' = UpdatedProducts(store, priceDataMap)
    /\ UNCHANGED << nextId, isImporting, pc, cur, totalProducts, batch, staleIds >>

\* the setProducts of the complete callback: the in-memory set is annotated
CheckedProducts(ps, priceDataMap) ==
    /\ products' = UpdatedProducts(ps, priceDataMap)
    /\ UNCHANGED importVars

\* the complete callback of one Papa.parse in flight
PapaComplete ==
    \E i \in DOMAIN parsing :
        LET priceDataMap == PriceDataMap(parsing[i].map, parsing[i].rows)
            matchedIds == DOMAIN priceDataMap
        IN  /\ CheckedProducts(products, priceDataMap)
            /\ priceCheckStats' =
                   Some(PriceCheckStats(UpdatedProducts(products, priceDataMap), priceDataMap))
            /\ hasPriceCheckData' = TRUE
            /\ checkedProductIds' = Some(matchedIds)
            /\ filters' = [ filters EXCEPT !.violationsOnly = TRUE ]
            /\ logs' = Append(logs, Entry("success", "checkComplete", NoSrc,
                                          Cardinality(matchedIds)))
            /\ lastCheck' = [ rows |-> parsing[i].rows, map |-> parsing[i].map,
                               data |-> priceDataMap ]
            /\ parsing' = RemoveAt(parsing, i)
            /\ UNCHANGED << call, settings, mountPending, nUser >>

\* the error callback of one Papa.parse in flight
PapaError ==
    \E i \in DOMAIN parsing :
        /\ logs' = Append(logs, Entry("error", "parseError", NoSrc, 0))
        /\ parsing' = RemoveAt(parsing, i)
        /\ UNCHANGED << call, settings, importVars, products, checkVars, mountPending, nUser,
                        lastCheck >>

----------------------------------------------------------------------------
(* The application: imports, uploads and clears interleaved *)

Next ==
    \/ MountLoaded
    \/ handleImport
    \/ ClearDone
    \/ ClearFailed
    \/ FetchFailed
    \/ FetchResolved
    \/ SaveDone
    \/ SaveFailed
    \/ LoadDone
    \/ LoadFailed
    \/ handleUploadPrices(Files)
    \/ PapaComplete
    \/ PapaError
    \/ handleClearPriceCheck

Spec == Init /\ [][Next]_vars

----------------------------------------------------------------------------
(* What the log and the store say about the latest import run.  handleImport *)
(* empties the log, so the run's entries in it are those of the latest run.  *)

RunKinds == { "start", "cleared", "clearError", "sourceStart", "header", "filtered",
              "warning", "imported", "failed", "finished" }

\* the entries runImport added
RunLog == SelectSeq(logs, LAMBDA e : e.kind \in RunKinds)

Logged(kind) == \E i \in DOMAIN logs : logs[i].kind = kind

EntriesOf(kind, name) == SelectSeq(logs, LAMBDA e : e.kind = kind /\ e.src = name)

NEnabled == Len(EnabledSources(settings))

Imported(k) == EntriesOf("imported", SourceAt(k).name) # << >>

FailedAt(k, why) ==
    \E i \in DOMAIN logs :
        logs[i].kind = "failed" /\ logs[i].src = SourceAt(k).name /\ logs[i].why = why

StoredOf(name) == SelectSeq(store, LAMBDA r : r.brand = name)

RunErrors == SelectSeq(RunLog, LAMBDA e : e.type = "error")

\* the run has left its loop over the sources
RunFinished == Logged("finished")

\* a run has ended, by its summary or by the failed clear
RunEnded == pc \in { "loading", "idle", "rejected" } /\ Logged("start")

MarkerUnresolved(source) ==
    source.id = AdidasId /\ colLetterToIndex(source.columns.promotion) = -1

----------------------------------------------------------------------------
----------------------------------------------------------------------------
(* C2: when the initial clear fails the run aborts at once: the run's log  *)
(* is the start entry and one error entry, no source is started, the store *)
(* is as it was, no summary is logged.  No other failure aborts the run:   *)
(* a run that ends without a clear error has logged its summary and has    *)
(* started every enabled source.                                           *)
C2_ClearFailureAborts ==
    /\ Logged("clearError") =>
         /\ RunLog = << Entry("info", "start", NoSrc, 0),
                        Entry("error", "clearError", NoSrc, 0) >>
         /\ pc \in { "loading", "idle", "rejected" }
         /\ cur = 0 /\ batch = << >>
         /\ Ids(store) = staleIds
    /\ (RunEnded /\ ~Logged("clearError")) =>
         /\ RunFinished
         /\ \A k \in 1 .. NEnabled : EntriesOf("sourceStart", SourceAt(k).name) # << >>

\* a run aborted by its clear has ended, the old records still stored
C2_Witness == Logged("clearError") /\ pc = "idle" /\ store # << >>

----------------------------------------------------------------------------
(* C3 (as stated): after any import run the store holds no record that was *)
(* in it before the run started.                                           *)
C3_ReplaceAllEveryRun == RunEnded => Ids(store) \cap staleIds = {}

(* C3 (amended): from the moment the run's clear has succeeded, and so     *)
(* after every run whose clear succeeded, whichever sources fail, the      *)
(* store holds no record that was in it before the run started: every      *)
(* stored record was saved by a source this run imported.                  *)
C3_ReplaceAllAfterClear ==
    Logged("cleared") =>
        /\ Ids(store) \cap staleIds = {}
        /\ \A i \in DOMAIN store : \E k \in 1 .. NEnabled :
             store[i].brand = SourceAt(k).name /\ Imported(k)

\* a partial re-import over an earlier generation has ended
C3_Witness ==
    /\ RunFinished /\ Logged("cleared")
    /\ staleIds # {} /\ store # << >>
    /\ \E i \in DOMAIN logs : logs[i].kind = "failed"

----------------------------------------------------------------------------
(* C4: at most one import run or one reconciliation run is active at any   *)
(* time: while an import run is between its start and its end no price     *)
(* file is being parsed or reconciled.                                     *)
C4_OneRunAtATime == isImporting => parsing = << >>

----------------------------------------------------------------------------
(* C5: the annotations on the products are exactly those of the latest     *)
(* reconciliation run, and none after a clear or an import: a product the  *)
(* latest run matched carries that run's annotation, any other product     *)
(* carries none of ourPrice, salePrice, isViolation, difference.           *)
C5_AnnotationsAreLatestRun ==
    /\ \A i \in DOMAIN products :
         LET p == products[i]
         IN  IF p.id \in DOMAIN lastCheck.data
             THEN \A f \in AnnotationFields :
                      f \in DOMAIN p /\ p[f] = lastCheck.data[p.id][f]
             ELSE DOMAIN p \cap ClearedFields = {}
    /\ DOMAIN lastCheck.data \subseteq Ids(products)

----------------------------------------------------------------------------
(* C6: a reconciliation run and a Clear Check leave the persisted store as *)
(* it is: no step of handleUploadPrices, of its parse callbacks or of      *)
(* handleClearPriceCheck changes the store, and no stored record ever      *)
(* carries an annotation field.                                            *)
C6_ChecksLeaveStore ==
    /\ [](\A i \in DOMAIN store : DOMAIN store[i] \cap AnnotationFields = {})
    /\ [][ (handleUploadPrices(Files) \/ PapaComplete \/ PapaError \/ handleClearPriceCheck)
           => store' = store ]_vars

\* a reconciliation has annotated a product of a non-empty store
C6_Witness ==
    /\ store # << >>
    /\ hasPriceCheckData
    /\ \E i \in DOMAIN products : "isViolation" \in DOMAIN products[i]

----------------------------------------------------------------------------
(* The reconciliation on its own: the store is one an earlier import left, *)
(* no import runs, and the first price file uploaded is any one of a wider *)
(* set of files.                                                           *)

Cell100 == << "1","0","0" >>
SkuABHyphen == << "A","B","-","1" >>
SkuABSpace == << "A","B"," ","1" >>

\* Puma feeds: the space form; the hyphen form and the space form; a record
\* without a price
PumaSpace == << << Hdr, Hdr >>, << SkuABSpace, Cell100 >> >>
PumaBoth == << << Hdr, Hdr >>, << SkuABHyphen, Cell100 >>, << SkuABSpace, Cell100 >> >>
PumaNoPrice == << << Hdr, Hdr >>, << << "A","B","1" >>, << "N","/","A" >> >> >>

\* Nike feeds: "N123" at 120; "AB-1" at $80.00 (stored as "AB 1")
NikeN123 == << << Hdr >>, << Hdr, Hdr >>, << << "N","1","2","3" >>, << "1","2","0" >> >> >>
NikeAB == << << Hdr >>, << Hdr, Hdr >>, << SkuABHyphen, << "$","8","0",".","0","0" >> >> >>

\* a Nike feed of two records: "N123" and "N456", both at 120
NikeTwo == << << Hdr >>, << Hdr, Hdr >>, << << "N","1","2","3" >>, << "1","2","0" >> >>,
              << << "N","4","5","6" >>, << "1","2","0" >> >> >>

\* a Nike feed whose SKU cell is "-A": stored as " A"
NikeLead == << << Hdr >>, << Hdr, Hdr >>, << << "-","A" >>, << "7","0" >> >> >>

\* a Puma feed that holds the hyphen form only
PumaHyphen == << << Hdr, Hdr >>, << SkuABHyphen, Cell100 >> >>

Catalogues ==
    { [ id \in { PumaId, NikeId, AdidasId } |->
          IF id = PumaId THEN ps ELSE IF id = NikeId THEN ns ELSE AdidasSheet ] :
      ps \in { PumaSpace, PumaBoth, PumaNoPrice }, ns \in { NikeN123, NikeAB } }

\* the store of an import in which only the Nike feed "N123" succeeded
NikeOnlyStore == Stored(ProcessSheet(ReconSettings.dataSources[2], NikeN123).products, 1)

ReconStarts ==
    { [ settings |-> ReconSettings,
        store |-> Stored(PriorBatches(EnabledSources(ReconSettings), cat), 1) ] :
      cat \in Catalogues }
    \cup { [ settings |-> ReconSettings, store |-> NikeOnlyStore ] }
    \cup { [ settings |-> ReconSettings,
             store |-> Stored(PriorBatches(EnabledSources(ReconSettings),
                                           [ id \in { PumaId, NikeId, AdidasId } |->
                                               IF id = PumaId THEN PumaSpace
                                               ELSE IF id = NikeId THEN NikeTwo
                                               ELSE AdidasSheet ]), 1) ] }
    \cup { [ settings |-> ReconSettings,
             store |-> Stored(PriorBatches(EnabledSources(ReconSettings),
                                           [ id \in { PumaId, NikeId, AdidasId } |->
                                               IF id = PumaId THEN PumaBoth
                                               ELSE IF id = NikeId THEN NikeLead
                                               ELSE AdidasSheet ]), 1) ] }
    \cup { [ settings |-> ReconSettings,
             store |-> Stored(PriorBatches(EnabledSources(ReconSettings),
                                           [ id \in { PumaId, NikeId, AdidasId } |->
                                               IF id = PumaId THEN PumaHyphen
                                               ELSE IF id = NikeId THEN NikeN123
                                               ELSE AdidasSheet ]), 1) ] }

ReconSkus == { SkuABHyphen, << " ","A","B"," ","1" >>, << "N","-","1","2","3" >>,
               << "A","1" >>, << "Z","Z" >> }

ReconPrices == { << "9","5" >>, << "9","4",".","9","9" >>, << "$","1","1","0" >>,
                 << "1","1","4",".","0","0" >>, << "N","/","A" >> }

ReconSalePrices == { Null, Some(<< >>), Some(<< "9","0" >>), Some(<< "x" >>) }

\* the same SKU in two rows, the later one cheaper
FileTwice == << Row(Some(SkuABHyphen), Some(<< "$","1","1","0" >>), Null),
                Row(Some(SkuABSpace), Some(<< "9","5" >>), Some(<< "9","0" >>)) >>

\* "A1" at $110 on sale at 90, between two rows of SKUs no feed holds
FileStrangers == << Row(Some(<< "Z","Z" >>), Some(<< "9","5" >>), Null),
                    Row(Some(<< "A","1" >>), Some(<< "$","1","1","0" >>), Some(<< "9","0" >>)),
                    Row(Some(<< "Z","-","9" >>), Some(<< "1" >>), Some(<< "x" >>)) >>

\* "AB-1" at 95, "N-123" with the price "N/A" and a sale price, "A1" at $110
\* on sale at 90
FileSkipped == << Row(Some(SkuABHyphen), Some(<< "9","5" >>), Null),
                  Row(Some(<< "N","-","1","2","3" >>), Some(<< "N","/","A" >>), Some(<< "9","0" >>)),
                  Row(Some(<< "A","1" >>), Some(<< "$","1","1","0" >>), Some(<< "9","0" >>)) >>

\* "AB-1" at $110, "N123" at 100, "N456" at 110, and "AB 1" again at 90
FileBrands == << Row(Some(SkuABHyphen), Some(<< "$","1","1","0" >>), Null),
                 Row(Some(<< "N","1","2","3" >>), Some(Cell100), Null),
                 Row(Some(<< "N","4","5","6" >>), Some(<< "1","1","0" >>), Null),
                 Row(Some(SkuABSpace), Some(<< "9","0" >>), Null) >>

\* "AB-1" at 95, then "AB 1" with the price "N/A" and a sale price
FileLastSkipped == << Row(Some(SkuABHyphen), Some(<< "9","5" >>), Null),
                      Row(Some(SkuABSpace), Some(<< "N","/","A" >>), Some(<< "9","0" >>)) >>

ReconFiles ==
    { << Row(Some(sku), Some(price), sale) >> :
        sku \in ReconSkus, price \in ReconPrices, sale \in ReconSalePrices }
    \cup { FileTwice, FileStrangers, FileSkipped, FileBrands, FileLastSkipped }

InitRecon == InitWith(ReconStarts) /\ call = NoCall

NextRecon ==
    \/ MountLoaded
    \/ (nUser = 0 /\ handleUploadPrices(ReconFiles))
    \/ (nUser > 0 /\ handleUploadPrices(Files))
    \/ PapaComplete
    \/ PapaError
    \/ handleClearPriceCheck

SpecRecon == InitRecon /\ [][NextRecon]_vars

Annotated(p) == "isViolation" \in DOMAIN p

\* the price an annotation was judged on, read off the annotation
PriceUsed(p) == IF p.salePrice # Null THEN Val(p.salePrice) ELSE p.ourPrice

\* the rows of the last completed check that found a product with a price,
\* each with what it found
CheckedRows ==
    { i \in DOMAIN lastCheck.rows : ~IsNull(CheckRow(lastCheck.map, lastCheck.rows[i])) }

\* C7: for every matched row, and every annotation a product carries,
\* isViolation is true exactly when the price used is strictly below mapPrice
\* minus the matched record's tolerance (0 when absent); a price equal to that
\* floor is not a violation.
C7_ViolationBoundary ==
    /\ \A i \in CheckedRows :
         LET ann == Val(CheckRow(lastCheck.map, lastCheck.rows[i])).ann
             rec == Val(FindVendorProduct(lastCheck.map, RetailerSkuRaw(lastCheck.rows[i])))
         IN  ann.isViolation <=> (PriceUsed(ann) < ann.mapPrice - ToleranceOf(rec))
    /\ \A k \in DOMAIN products :
         Annotated(products[k]) =>
             (products[k].isViolation <=>
                 (PriceUsed(products[k]) < products[k].mapPrice - ToleranceOf(products[k])))

\* C7 witness: MAP 100.00 with tolerance 5.00, checked at exactly 95.00, is
\* compliant
C7_Witness ==
    \E k \in DOMAIN products :
        /\ Annotated(products[k])
        /\ products[k].mapPrice = 10000
        /\ ToleranceOf(products[k]) = 500
        /\ PriceUsed(products[k]) = 9500
        /\ ~products[k].isViolation

\* the row's sale-price field is present and parses to a number
SaleUsable(row) == ~IsNull(row.salePrice) /\ ~IsNull(parsePrice(row.salePrice))

\* the price the row is to be judged on, read off the row
RowPrice(row) ==
    IF SaleUsable(row) THEN Val(parsePrice(row.salePrice)) ELSE Val(parsePrice(row.price))

\* C8: for every matched row whose annotation a product carries, the price
\* judged is the row's sale price when that field is present and parses to a
\* number, and the row's regular price otherwise.
C8_SalePricePrecedence ==
    \A i \in CheckedRows :
        LET row == lastCheck.rows[i]
            id == Val(CheckRow(lastCheck.map, row)).id
        IN  LastRowFor(lastCheck.map, lastCheck.rows, id) = i =>
                \E k \in DOMAIN products :
                    /\ products[k].id = id
                    /\ Annotated(products[k])
                    /\ products[k].difference = RowPrice(row) - products[k].mapPrice
                    /\ products[k].isViolation <=>
                         (RowPrice(row) < products[k].mapPrice - ToleranceOf(products[k]))

\* C8 witness: regular price 110, sale price 90, MAP 100, tolerance 0: flagged,
\* difference -10
C8_Witness ==
    \E k \in DOMAIN products :
        /\ Annotated(products[k])
        /\ products[k].ourPrice = 11000
        /\ products[k].salePrice = Some(9000)
        /\ products[k].mapPrice = 10000
        /\ ToleranceOf(products[k]) = 0
        /\ products[k].isViolation
        /\ products[k].difference = 0 - 1000
        /\ \E i \in CheckedRows : SaleUsable(lastCheck.rows[i])

\* C9: every annotation's difference is the price used minus mapPrice, the
\* tolerance not subtracted, mapPrice being the matched record's stored price;
\* so a violation has a negative difference and a difference >= 0 is never a
\* violation.
C9_DifferenceIsSigned ==
    \A k \in DOMAIN products :
        Annotated(products[k]) =>
            /\ products[k].mapPrice = Val(products[k].price)
            /\ \A j \in DOMAIN store :
                 store[j].id = products[k].id => products[k].mapPrice = Val(store[j].price)
            /\ products[k].difference = PriceUsed(products[k]) - products[k].mapPrice
            /\ products[k].isViolation => products[k].difference < 0
            /\ products[k].difference >= 0 => ~products[k].isViolation

\* C9 witness: under a tolerance of 5.00 a price 5.00 below MAP is compliant
\* and carries the difference -5.00
C9_Witness ==
    \E k \in DOMAIN products :
        /\ Annotated(products[k])
        /\ ToleranceOf(products[k]) = 500
        /\ products[k].difference = 0 - 500
        /\ ~products[k].isViolation

\* the uploaded SKUs of the last completed check that hold a hyphen while a
\* record of the product index has the same string with spaces for hyphens
HyphenRows ==
    { i \in DOMAIN lastCheck.rows :
        LET u == RetailerSkuRaw(lastCheck.rows[i])
        IN  /\ "-" \in Range(u)
            /\ \E key \in DOMAIN lastCheck.map :
                 lastCheck.map[key].sku = Some(HyphensToSpaces(u)) }

\* C10 as stated: an uploaded SKU in hyphen form matches the stored record
\* whose SKU is the same string with a space for each hyphen.
C10_HyphenMatchesSpaceForm ==
    \A i \in HyphenRows :
        LET u == RetailerSkuRaw(lastCheck.rows[i])
            hit == FindVendorProduct(lastCheck.map, u)
        IN  ~IsNull(hit) /\ Val(hit).sku = Some(HyphensToSpaces(u))

\* C10 amended: an uploaded SKU in hyphen form always finds a record when the
\* space form is stored; it is the record filed under the space form unless a
\* record is filed under the SKU exactly as uploaded, which then wins.
C10_HyphenMatchesSpaceFormUnlessExact ==
    \A i \in HyphenRows :
        LET u == RetailerSkuRaw(lastCheck.rows[i])
            hit == FindVendorProduct(lastCheck.map, u)
        IN  /\ ~IsNull(hit)
            /\ IndexKey(Val(hit)) =
                 IF u \in DOMAIN lastCheck.map THEN u ELSE trim(HyphensToSpaces(u))
            /\ u \notin DOMAIN lastCheck.map => Val(hit).sku = Some(HyphensToSpaces(u))

\* C10 witness: "AB-1" uploaded, the Puma record "AB 1" annotated
C10_Witness ==
    /\ HyphenRows # {}
    /\ \E k \in DOMAIN products :
         /\ Annotated(products[k])
         /\ products[k].sku = Some(SkuABSpace)
         /\ products[k].brand = PumaName
         /\ \E i \in HyphenRows : RetailerSkuRaw(lastCheck.rows[i]) = SkuABHyphen

----------------------------------------------------------------------------
\* the upload of C11: one row, "N-123" at 114.00, no sale price
RowN123 == Row(Some(<< "N","-","1","2","3" >>), Some(<< "1","1","4",".","0","0" >>), Null)

\* the one record of C11: "N123" of Nike at 120 with tolerance 0.05
IsN123(p) ==
    /\ p.sku = Some(<< "N","1","2","3" >>) /\ p.brand = NikeName
    /\ p.price = Some(12000) /\ p.tolerance = 5

\* the latest completed check ran the upload of C11 against a product set
\* holding the record of C11 alone
C11_Scenario ==
    /\ lastCheck.rows = << RowN123 >>
    /\ Len(products) = 1 /\ Len(store) = 1 /\ IsN123(store[1])
    /\ DOMAIN lastCheck.map = { << "N","1","2","3" >> }

\* C11: with the store holding the one record "N123" (Nike, 120, tolerance
\* 0.05) and the one uploaded row "N-123" at 114.00 without a sale price, the
\* check finds the match, judges 114 against the floor 119.95 and produces
\* exactly one annotation, a violation with difference -6.
C11_EndToEnd ==
    C11_Scenario =>
        /\ DOMAIN lastCheck.data = { products[1].id }
        /\ Annotated(products[1])
        /\ products[1].ourPrice = 11400 /\ products[1].salePrice = Null
        /\ products[1].mapPrice = 12000
        /\ products[1].mapPrice - ToleranceOf(products[1]) = 11995
        /\ products[1].isViolation = TRUE
        /\ products[1].difference = 0 - 600
        /\ priceCheckStats # Null /\ Val(priceCheckStats).productsChecked = 1
        /\ Val(priceCheckStats).totalSavingsAtRisk = 600

\* C11 witness: the scenario has run and the record is flagged
C11_Witness ==
    /\ C11_Scenario
    /\ hasPriceCheckData
    /\ Annotated(products[1]) /\ products[1].isViolation

----------------------------------------------------------------------------
\* no candidate of the row's SKU is a key of the product index the check
\* used, under either normalization
Stranger(row) ==
    LET u == RetailerSkuRaw(row)
    IN  /\ u # << >>
        /\ \A c \in { u, HyphensToSpaces(u), RemoveAll(u, " "), RemoveAll(u, "-") } :
             \A b \in { NoBrand, NikeId } : normalizeSku(c, b) \notin DOMAIN lastCheck.map

\* C12: rows of which no candidate SKU is found produce no annotation and
\* change nothing: the annotation set, the checked ids, productsChecked, the
\* violations, totalSavingsAtRisk and the per-brand counts of the latest
\* check are those of the same upload with every such row taken out.
C12_StrangersChangeNothing ==
    LET kept == SelectSeq(lastCheck.rows, LAMBDA row : ~Stranger(row))
        alone == PriceDataMap(lastCheck.map, kept)
    IN  /\ lastCheck.data = alone
        /\ \A i \in DOMAIN lastCheck.rows :
             Stranger(lastCheck.rows[i]) => IsNull(CheckRow(lastCheck.map, lastCheck.rows[i]))
        /\ priceCheckStats # Null =>
             /\ Val(priceCheckStats) = PriceCheckStats(UpdatedProducts(products, alone), alone)
             /\ Val(priceCheckStats).productsChecked = Cardinality(DOMAIN alone)
             /\ checkedProductIds = Some(DOMAIN alone)

\* C12 witness: a completed check of an upload holding two unmatched rows
\* and a matched one has annotated the one product
C12_Witness ==
    /\ hasPriceCheckData
    /\ Cardinality({ i \in DOMAIN lastCheck.rows : Stranger(lastCheck.rows[i]) }) = 2
    /\ Cardinality(DOMAIN lastCheck.data) = 1
    /\ priceCheckStats # Null /\ Val(priceCheckStats).productsChecked = 1

----------------------------------------------------------------------------
\* the rows of the latest completed check that found a record
FoundRows == { i \in DOMAIN lastCheck.rows :
                 /\ RetailerSkuRaw(lastCheck.rows[i]) # << >>
                 /\ ~Stranger(lastCheck.rows[i]) }

\* the record row i found
FoundBy(i) == Val(FindVendorProduct(lastCheck.map, RetailerSkuRaw(lastCheck.rows[i])))

\* the found rows whose price does not parse or whose record has no price
SkippedRows == { i \in FoundRows :
                   \/ IsNull(parsePrice(lastCheck.rows[i].price))
                   \/ IsNull(FoundBy(i).price) }

\* C13: a matched row whose price does not parse, or whose record's stored
\* price is null, yields no annotation and is not counted; it is skipped
\* silently: every other matched row, before or after it, is annotated, and
\* the completion logs its one success entry and nothing else.
C13_SkippedSilently ==
    /\ [](/\ \A id \in DOMAIN lastCheck.data :
               \E i \in FoundRows \ SkippedRows : FoundBy(i).id = id
          /\ \A i \in FoundRows \ SkippedRows : FoundBy(i).id \in DOMAIN lastCheck.data
          /\ priceCheckStats # Null =>
               Val(priceCheckStats).productsChecked =
                   Cardinality({ FoundBy(i).id : i \in FoundRows \ SkippedRows }))
    /\ [][ PapaComplete =>
             /\ Len(logs') = Len(logs) + 1
             /\ logs'[Len(logs')] =
                  Entry("success", "checkComplete", NoSrc,
                        Cardinality(DOMAIN lastCheck'.data)) ]_vars

\* C13 witness: of three matched rows the first found a record without a
\* price, the second had a price that does not parse, the third is annotated
C13_Witness ==
    /\ hasPriceCheckData
    /\ FoundRows = { 1, 2, 3 } /\ SkippedRows = { 1, 2 }
    /\ IsNull(FoundBy(1).price) /\ ~IsNull(parsePrice(lastCheck.rows[1].price))
    /\ ~IsNull(FoundBy(2).price)
    /\ DOMAIN lastCheck.data = { FoundBy(3).id }
    /\ \A i \in DOMAIN logs : logs[i].type # "error"

----------------------------------------------------------------------------
(* The helpers on their own: normalizeSku applied to a string and then to  *)
(* its own result, as runImport and vendorProductMap apply it to a SKU     *)
(* cell; colLetterToIndex applied to a column letter.                      *)

\* the length of the SKUs and of the column letters tried
MaxArgLen == 2

StringsOver(alphabet, n) == UNION { [ 1 .. k -> alphabet ] : k \in 0 .. n }

SkuCalls ==
    { [ fn |-> "normalizeSku", arg |-> sku, brandId |-> b, out |-> << >> ] :
        sku \in StringsOver({ "A", "b", "-", " " }, MaxArgLen),
        b \in { NikeId, JordanId, PumaId, NoBrand } }

LetterCalls ==
    { [ fn |-> "colLetterToIndex", arg |-> letter, brandId |-> NoBrand, out |-> << >> ] :
        letter \in { Null } \cup
            { Some(l) : l \in StringsOver(Range(UpperLetters) \cup { "a", "z", " ", "1", "-" },
                                           MaxArgLen) } }

\* rows of a sheet: SKU in column A, a price in column B and, unless the
\* row is short, a date cell in column C
MapCells ==
    { << << "N","B","1" >>, << "$","1",",","2","3","4",".","5","0" >>,
         << "2","0","2","4","-","0","1","-","0","5" >> >>,
      << << " ","x"," " >>, << "N","/","A" >>, << " ","a","l","w","a","y","s"," ","o","n" >> >>,
      << << "a","-","1" >>, << "-","5",".","0","0" >>, << "T","B","D" >> >>,
      << << >>, << "1","2",".","5" >>, << "-" >> >>,
      << << "q" >>, << >>, << " " >> >>,
      << << "q" >>, << "9" >> >>,
      << >> }

\* a field of COLUMN_MAPPINGS, its column letter and a row; a date field is
\* given the date column or a column that does not resolve or is not there
FieldCalls ==
    { [ fn |-> "mapField", arg |-> [ field |-> f, letter |-> l, row |-> r ],
        brandId |-> NoBrand, out |-> << >> ] :
        f \in DOMAIN FieldName,
        l \in { ColA, ColB, ColC, Some(<< " ","c" >>), Some(<< "D" >>), ColBlank,
                Some(<< "A","A" >>), Null },
        r \in MapCells }
    \ { [ fn |-> "mapField", arg |-> [ field |-> f, letter |-> l, row |-> r ],
          brandId |-> NoBrand, out |-> << >> ] :
          f \in { g \in DOMAIN FieldName : IsDateField(g) }, l \in { ColA, ColB },
          r \in MapCells }

InitFn ==
    /\ InitWith({ [ settings |-> SettingsWith(ColC, TRUE), store |-> << >> ] })
    /\ call \in SkuCalls \cup LetterCalls \cup FieldCalls

\* normalizeSku(sku, brandId) on the argument, then on what it returned
CallNormalizeSku ==
    /\ call.fn = "normalizeSku"
    /\ Len(call.out) < 2
    /\ call' = [ call EXCEPT !.out =
                   Append(@, normalizeSku(IF @ = << >> THEN call.arg ELSE @[Len(@)],
                                          call.brandId)) ]
    /\ UNCHANGED appVars

\* colLetterToIndex(letter)
CallColLetterToIndex ==
    /\ call.fn = "colLetterToIndex"
    /\ call.out = << >>
    /\ call' = [ call EXCEPT !.out = << colLetterToIndex(call.arg) >> ]
    /\ UNCHANGED appVars

\* the body of Object.entries(mapping).forEach for one field of one row
CallMapField ==
    /\ call.fn = "mapField"
    /\ call.out = << >>
    /\ call' = [ call EXCEPT !.out =
                   << MapField(call.arg.field, call.arg.letter, call.arg.row) >> ]
    /\ UNCHANGED appVars

NextFn == CallNormalizeSku \/ CallColLetterToIndex \/ CallMapField

SpecFn == InitFn /\ [][NextFn]_vars

\* C14: normalizeSku is idempotent: applied to its own result under the same
\* brand id it returns that result again, for every string and brand id.
C14_NormalizeSkuIdempotent ==
    (call.fn = "normalizeSku" /\ Len(call.out) = 2) => call.out[2] = call.out[1]

\* the argument of a colLetterToIndex call with its blanks taken out
Letter == IF IsNull(call.arg) THEN << >> ELSE RemoveAll(Val(call.arg), " ")

\* C19: colLetterToIndex maps each single letter A..Z, trimmed and in either
\* case, to its own index 0..25 (A = 0, Z = 25), so that the letter is
\* recovered from the index; and it returns -1 for null, empty,
\* multi-character and non-letter input.
C19_LetterIndexRoundTrip ==
    (call.fn = "colLetterToIndex" /\ call.out # << >>) =>
        LET index == call.out[1]
            single == Len(Letter) = 1
                      /\ Letter[1] \in Range(UpperLetters) \cup Range(LowerLetters)
        IN  /\ index \in -1 .. 25
            /\ single <=> index >= 0
            /\ index >= 0 =>
                 /\ \/ Letter = << UpperLetters[index + 1] >>
                    \/ Letter = << LowerLetters[index + 1] >>
                 /\ Letter = << "A" >> => index = 0
                 /\ Letter = << "Z" >> => index = 25

\* C19 witness: " z" gave 25
C19_Witness ==
    /\ call.fn = "colLetterToIndex"
    /\ call.arg = Some(<< " ", "z" >>)
    /\ call.out = << 25 >>

----------------------------------------------------------------------------
(* The import on its own: the New Balance and Vans feeds under settings    *)
(* that differ in New Balance's headerRow and in whether Vans is enabled   *)
(* and has a url; no price file is uploaded.                               *)

ImportSettings(headerRow, vansEnabled, vansUrl) ==
    [ dataSources |->
        << Source(NewBalanceId, << "N","e","w"," ","B","a","l","a","n","c","e" >>, TRUE, TRUE,
                  headerRow, DefaultTolerance, [ sku |-> ColA, price |-> ColB ]),
           Source(VansId, << "V","a","n","s" >>, vansUrl, vansEnabled,
                  1, DefaultTolerance, [ sku |-> ColB, price |-> ColA ]) >>,
      uploadColumnMapping |-> UploadColumnMapping ]

\* the store is empty, or the one an earlier import left when both feeds
\* were enabled
ImportStarts ==
    { [ settings |-> ImportSettings(h, on[1], on[2]),
        store |-> IF prior
                  THEN Stored(PriorBatches(ImportSettings(h, TRUE, TRUE).dataSources,
                                           [ id \in { NewBalanceId, VansId } |->
                                               IF id = VansId THEN VansSheet
                                               ELSE NewBalanceSheet ]), 1)
                  ELSE << >> ] :
      h \in { 1, 2, 3, 5, 6 },
      on \in { << TRUE, TRUE >>, << FALSE, TRUE >>, << TRUE, FALSE >> },
      prior \in BOOLEAN }

InitImport == InitWith(ImportStarts) /\ call = NoCall

NextImport ==
    \/ MountLoaded
    \/ handleImport
    \/ ClearDone
    \/ ClearFailed
    \/ FetchFailed
    \/ FetchResolved
    \/ SaveDone
    \/ SaveFailed
    \/ LoadDone
    \/ LoadFailed

SpecImport == InitImport /\ [][NextImport]_vars

\* C15: in every state of the store each record's price is null or a number
\* that is not negative, whatever the feed's price cell held; stated of the
\* records an import run has saved since its clear.
C15_StoredPriceNotNegative ==
    Logged("cleared") =>
        \A i \in DOMAIN store :
            \/ IsNull(store[i].price)
            \/ (Val(store[i].price) \in Int /\ Val(store[i].price) >= 0)

----------------------------------------------------------------------------
\* the row's cell in the source's SKU column is missing, empty or blank
BlankSku(source, row) ==
    LET columnIndex == colLetterToIndex(source.columns.sku)
    IN  \/ columnIndex = -1 \/ columnIndex >= Len(row)
        \/ RemoveAll(row[columnIndex + 1], " ") = << >>

\* the rows of the sheet below the source's header row
DataRowsOf(source, sheet) == SubSeq(sheet, source.headerRow + 1, Len(sheet))

\* the SKUs to be stored for the sheet: one for each data row with a SKU
SkusOf(source, sheet) ==
    LET rows == SelectSeq(DataRowsOf(source, sheet), LAMBDA row : ~BlankSku(source, row))
    IN  [ j \in DOMAIN rows |->
            Some(normalizeSku(rows[j][colLetterToIndex(source.columns.sku) + 1], source.id)) ]

----------------------------------------------------------------------------
\* the rows of the sheet after the source's header row that have no SKU
BlankAfterHeader(source, sheet) ==
    { i \in (source.headerRow + 1) .. Len(sheet) : BlankSku(source, sheet[i]) }

\* C17: for a sheet of n rows and a headerRow h with 1 <= h <= n exactly the
\* n - h rows after the h-th enter the mapping, so that n - h records less the
\* rows without a SKU are stored; for h > n the source fails with its own
\* error entry, stores nothing, and the run goes on to the next source.
C17_HeaderRowSlicing ==
    Logged("cleared") =>
        \A k \in 1 .. NEnabled :
            LET source == SourceAt(k)
                h == source.headerRow
                stored == StoredOf(source.name)
            IN  /\ (Imported(k) /\ source.id # AdidasId) =>
                     \E sheet \in SheetsOf(source) :
                         /\ 1 <= h /\ h <= Len(sheet)
                         /\ Len(stored) + Cardinality(BlankAfterHeader(source, sheet))
                                = Len(sheet) - h
                         /\ stored # << >> =>
                              \E i \in (h + 1) .. Len(sheet) :
                                  /\ ~BlankSku(source, sheet[i])
                                  /\ \A j \in (h + 1) .. (i - 1) : BlankSku(source, sheet[j])
                                  /\ stored[1].sku = SkusOf(source, sheet)[1]
                /\ FailedAt(k, "headerRow") =>
                     /\ \E sheet \in SheetsOf(source) : h > Len(sheet)
                     /\ stored = << >>
                     /\ Len(EntriesOf("failed", source.name)) = 1
                     /\ IF k < NEnabled
                        THEN EntriesOf("sourceStart", SourceAt(k + 1).name) # << >>
                        ELSE RunFinished
                /\ (\A sheet \in SheetsOf(source) : h > Len(sheet)) => ~Imported(k)
                /\ (\A sheet \in SheetsOf(source) : h <= Len(sheet)) =>
                     ~FailedAt(k, "headerRow")

\* C17 witness: headerRow 3 on the five rows of the New Balance sheet: the
\* two rows after the third are stored
C17_Witness ==
    /\ Logged("cleared")
    /\ \E k \in 1 .. NEnabled :
         /\ SourceAt(k).id = NewBalanceId /\ SourceAt(k).headerRow = 3
         /\ Len(NewBalanceSheet) = 5
         /\ Imported(k)
         /\ LET stored == StoredOf(SourceAt(k).name)
            IN  /\ Len(stored) = 2
                /\ stored[1].sku = Some(<< "N","B","2" >>)
                /\ stored[2].sku = Some(<< "N","B","3" >>)

----------------------------------------------------------------------------
\* the configured sources an import run passes over
SkippedSources ==
    { settings.dataSources[i] : i \in { j \in DOMAIN settings.dataSources :
          ~settings.dataSources[j].enabled \/ ~settings.dataSources[j].url } }

\* C18: a source that is disabled or has no url is never the source an
\* import run fetches or saves, no log entry carries its name, and once the
\* run has cleared the store no record of the store is one of its rows.
C18_SkippedSourcesUntouched ==
    \A source \in SkippedSources :
        /\ pc \in { "fetching", "saving" } => SourceAt(cur) # source
        /\ \A i \in DOMAIN logs : logs[i].src # source.name
        /\ Logged("cleared") => StoredOf(source.name) = << >>

\* C18 witness: a finished run that imported New Balance while Vans, whose
\* rows an earlier import had stored, is disabled or has no url
C18_Witness ==
    /\ RunFinished
    /\ staleIds # {}
    /\ \E source \in SkippedSources : source.id = VansId
    /\ NEnabled = 1 /\ Imported(1)
    /\ store # << >>

----------------------------------------------------------------------------
\* the products the latest completed check found in violation
ViolatingIds == { id \in DOMAIN lastCheck.data : lastCheck.data[id].isViolation }

\* the brand of the product with this id
BrandOfId(id) == products[CHOOSE i \in DOMAIN products : products[i].id = id].brand

\* the sum of |difference| over the annotations of ids
RECURSIVE RiskOf(_)
RiskOf(ids) ==
    IF ids = {} THEN 0
    ELSE LET id == CHOOSE x \in ids : TRUE
             d == lastCheck.data[id].difference
         IN  (IF d < 0 THEN 0 - d ELSE d) + RiskOf(ids \ { id })

RECURSIVE SumOfCounts(_)
SumOfCounts(es) == IF es = << >> THEN 0 ELSE Head(es).count + SumOfCounts(Tail(es))

\* totalSavingsAtRisk and brandsAffected as reductions of the annotation set
StatsReduceAnnotations ==
    LET stats == Val(priceCheckStats)
        brands == stats.brandsAffected
    IN  /\ stats.totalSavingsAtRisk = RiskOf(ViolatingIds)
        /\ \A i, j \in DOMAIN brands :
             i < j => (brands[i].count >= brands[j].count /\ brands[i].name # brands[j].name)
        /\ \A i \in DOMAIN brands :
             brands[i].count =
                 Cardinality({ id \in ViolatingIds : BrandOfId(id) = brands[i].name })
        /\ SumOfCounts(brands) =
               Cardinality({ id \in ViolatingIds : BrandOfId(id) # << >> })

\* C20 (as amended): after a completed check productsChecked is the number of
\* distinct products the uploaded rows annotated, which is at most the number
\* of rows successfully checked; totalSavingsAtRisk is the sum of |difference|
\* over the annotations in violation, and the per-brand violation counts are
\* in non-increasing order and sum to the number of violations of records
\* having a brand.
C20_StatsCountProducts ==
    priceCheckStats # Null =>
        /\ Val(priceCheckStats).productsChecked = Cardinality(DOMAIN lastCheck.data)
        /\ Val(priceCheckStats).productsChecked =
               Cardinality({ Val(CheckRow(lastCheck.map, lastCheck.rows[i])).id :
                             i \in CheckedRows })
        /\ Val(priceCheckStats).productsChecked <= Cardinality(CheckedRows)
        /\ StatsReduceAnnotations

\* C20 witness: four rows checked, two of them on the same Puma record: three
\* products checked, 40.00 at risk, Nike with two violations ahead of Puma
\* with one
C20_Witness ==
    /\ priceCheckStats # Null
    /\ lastCheck.rows = FileBrands
    /\ Cardinality(CheckedRows) = 4
    /\ Val(priceCheckStats).productsChecked = 3
    /\ Val(priceCheckStats).totalSavingsAtRisk = 40 * PriceScale
    /\ Val(priceCheckStats).brandsAffected =
           << [ name |-> NikeName, count |-> 2 ], [ name |-> PumaName, count |-> 1 ] >>

\* C20 as stated: the checked count is the number of uploaded rows
\* successfully checked
C20_StatsCountRows ==
    priceCheckStats # Null =>
        /\ Val(priceCheckStats).productsChecked = Cardinality(CheckedRows)
        /\ StatsReduceAnnotations

----------------------------------------------------------------------------
\* the entries that end a source: its success or its failure
EndKinds == { "imported", "failed" }

\* the entries a source logs between its start and its end
StepKinds == { "header", "filtered", "warning" }

\* the positions of the run log at which source k is started, and ended
StartsOf(k) ==
    { i \in DOMAIN RunLog : RunLog[i].kind = "sourceStart" /\ RunLog[i].src = SourceAt(k).name }

EndsOf(k) ==
    { i \in DOMAIN RunLog : RunLog[i].kind \in EndKinds /\ RunLog[i].src = SourceAt(k).name }

\* the sources started and not yet ended
InFlight == { k \in 1 .. NEnabled : StartsOf(k) # {} /\ EndsOf(k) = {} }

\* C21: an import run goes from idle through the clear, then through the
\* enabled sources one at a time in configuration order, to its summary: the
\* clear is logged before the first source starts, a source starts right
\* after the source before it has been imported or has failed, at most one
\* source is in flight, every step entry belongs to the source in flight,
\* and the summary is the last entry, after the last source has ended.
C21_SequentialRun ==
    LET L == RunLog
    IN  /\ L # << >> => L[1].kind = "start"
        /\ pc = "clearing" => L = << Entry("info", "start", NoSrc, 0) >>
        /\ pc \in { "fetching", "saving" } =>
             /\ Logged("cleared") /\ ~Logged("finished")
             /\ InFlight = { cur }
        /\ pc \in { "idle", "loading", "rejected", "clearing" } => InFlight = {}
        /\ Cardinality(InFlight) <= 1
        /\ \A k \in 1 .. NEnabled :
             /\ Cardinality(StartsOf(k)) <= 1 /\ Cardinality(EndsOf(k)) <= 1
             /\ \A i \in StartsOf(k) :
                  IF k = 1 THEN i = 3 /\ L[2].kind = "cleared"
                  ELSE (i - 1) \in EndsOf(k - 1)
             /\ \A i \in EndsOf(k) : \E j \in StartsOf(k) : j < i
        /\ \A i \in DOMAIN L :
             L[i].kind \in StepKinds \cup EndKinds =>
                 \E k \in 1 .. NEnabled :
                     /\ L[i].src = SourceAt(k).name
                     /\ \E j \in StartsOf(k) :
                          /\ j < i
                          /\ \A m \in (j + 1) .. (i - 1) :
                               L[m].kind \in StepKinds /\ L[m].src = L[i].src
        /\ \A i \in DOMAIN L :
             L[i].kind = "finished" =>
                 /\ i = Len(L)
                 /\ \A k \in 1 .. NEnabled : EndsOf(k) # {}
                 /\ IF NEnabled = 0 THEN L[i - 1].kind = "cleared"
                    ELSE (i - 1) \in EndsOf(NEnabled)

\* C21 witness: a finished run over two sources, the first failed and the
\* second imported, the store holding the second's batch
C21_Witness ==
    /\ RunFinished /\ pc = "idle"
    /\ NEnabled = 2
    /\ \E i \in EndsOf(1), j \in StartsOf(2), m \in EndsOf(2) :
         /\ RunLog[i].kind = "failed" /\ j = i + 1
         /\ RunLog[m].kind = "imported" /\ RunLog[m].n > 0
         /\ RunLog[Len(RunLog)].kind = "finished"
    /\ store # << >>

----------------------------------------------------------------------------
\* the counts of the success entries of the run, added up
RECURSIVE SumOfImported(_)
SumOfImported(es) ==
    IF es = << >> THEN 0
    ELSE (IF Head(es).kind = "imported" THEN Head(es).n ELSE 0) + SumOfImported(Tail(es))

\* C22: the total the summary of an import run reports is the sum of the
\* counts of its success entries and the number of records in the store; a
\* source that failed, at the fetch, at the header row or at the save, has no
\* success entry and no record in the store.  Throughout the run the store
\* holds as many records as the success entries logged so far report.
C22_TotalIsSumIsStore ==
    Logged("cleared") =>
        /\ Len(store) = SumOfImported(RunLog)
        /\ pc \in { "fetching", "saving" } => totalProducts = Len(store)
        /\ \A i \in DOMAIN RunLog :
             RunLog[i].kind = "finished" =>
                 RunLog[i].n = SumOfImported(RunLog) /\ RunLog[i].n = Len(store)
        /\ \A k \in 1 .. NEnabled :
             /\ (\E i \in EndsOf(k) : RunLog[i].kind = "failed") =>
                    ~Imported(k) /\ StoredOf(SourceAt(k).name) = << >>
             /\ \A i \in EndsOf(k) :
                    RunLog[i].kind = "imported" =>
                        RunLog[i].n = Len(StoredOf(SourceAt(k).name))

\* C22 witness: a finished run in which one source failed at the save of a
\* non-empty batch and the other was imported: the total is the other's count
C22_Witness ==
    /\ RunFinished
    /\ NEnabled = 2
    /\ \E k \in 1 .. 2 :
         /\ FailedAt(k, "save")
         /\ \E sheet \in SheetsOf(SourceAt(k)) : SkusOf(SourceAt(k), sheet) # << >>
         /\ Imported(3 - k)
         /\ RunLog[Len(RunLog)].n = Len(StoredOf(SourceAt(3 - k).name))
    /\ RunLog[Len(RunLog)].n > 0
    /\ RunLog[Len(RunLog)].n = Len(store)

----------------------------------------------------------------------------
\* the stored SKU of a product, trimmed and otherwise as stored
TrimmedSku(p) == trim(Val(p.sku))

\* C23: the lookup index is built over the whole in-memory product set and
\* files every product, of whatever brand, under its stored SKU trimmed,
\* hyphens kept: the keys of the index are exactly the trimmed SKUs of the
\* products, each key leads to a product with that trimmed SKU, and the
\* index a check used was built this way.
C23_IndexKeyIsTrimmedSku ==
    /\ \A i \in DOMAIN products : IndexKey(products[i]) = TrimmedSku(products[i])
    /\ DOMAIN vendorProductMap(products) =
           { TrimmedSku(products[i]) : i \in DOMAIN products }
    /\ \A key \in DOMAIN vendorProductMap(products) :
           TrimmedSku(vendorProductMap(products)[key]) = key
    /\ \A key \in DOMAIN lastCheck.map : TrimmedSku(lastCheck.map[key]) = key

\* C23 witness: a check was run on an index that holds a Puma record under
\* its hyphenated SKU "AB-1" and the Nike record stored as " A" under "A"
C23_Witness ==
    /\ hasPriceCheckData
    /\ SkuABHyphen \in DOMAIN lastCheck.map
    /\ lastCheck.map[SkuABHyphen].brand = PumaName
    /\ lastCheck.map[SkuABHyphen].sku = Some(SkuABHyphen)
    /\ << "A" >> \in DOMAIN lastCheck.map
    /\ lastCheck.map[<< "A" >>].brand = NikeName
    /\ lastCheck.map[<< "A" >>].sku = Some(<< " ","A" >>)
    /\ Cardinality(DOMAIN lastCheck.map) = Len(products)

----------------------------------------------------------------------------
\* the eight keys looked up for an uploaded SKU, in the order stated: for
\* the value as uploaded, with hyphens replaced by spaces, with spaces
\* removed and with hyphens removed, the trimmed key and then the key with
\* its hyphens replaced by spaces
LookupKeys(raw) ==
    LET c == << raw, HyphensToSpaces(raw), RemoveAll(raw, " "), RemoveAll(raw, "-") >>
    IN  [ j \in 1 .. 8 |->
            IF j % 2 = 1 THEN trim(c[(j + 1) \div 2])
            ELSE HyphensToSpaces(trim(c[j \div 2])) ]

\* the positions of the keys of raw that the index holds
HitsOf(map, raw) == { j \in 1 .. 8 : LookupKeys(raw)[j] \in DOMAIN map }

FirstOf(hits) == CHOOSE j \in hits : \A m \in hits : j <= m

\* the record the first successful lookup of row i of the latest check gives
FirstRecord(i) ==
    LET raw == RetailerSkuRaw(lastCheck.rows[i])
    IN  lastCheck.map[LookupKeys(raw)[FirstOf(HitsOf(lastCheck.map, raw))]]

\* the rows of the latest check with a SKU and at least one successful lookup
HitRows ==
    { i \in DOMAIN lastCheck.rows :
        /\ RetailerSkuRaw(lastCheck.rows[i]) # << >>
        /\ HitsOf(lastCheck.map, RetailerSkuRaw(lastCheck.rows[i])) # {} }

\* C24: a row is matched to the record of the first successful lookup in the
\* fixed order of the candidates and, within a candidate, of the default
\* lookup before the hyphen-to-space lookup, whatever later lookups would
\* find; a row without a successful lookup finds nothing; the annotations of
\* a check are those of the records its rows found this way.
C24_FirstMatchWins ==
    /\ \A i \in DOMAIN lastCheck.rows :
         LET raw == RetailerSkuRaw(lastCheck.rows[i])
         IN  raw # << >> =>
                 FindVendorProduct(lastCheck.map, raw) =
                     IF i \in HitRows THEN Some(FirstRecord(i)) ELSE Null
    /\ \A i \in HitRows :
         (~IsNull(FirstRecord(i).price) /\ ~IsNull(parsePrice(lastCheck.rows[i].price))) =>
             /\ FirstRecord(i).id \in DOMAIN lastCheck.data
             /\ lastCheck.data[FirstRecord(i).id].mapPrice = Val(FirstRecord(i).price)
    /\ \A id \in DOMAIN lastCheck.data : \E i \in HitRows : FirstRecord(i).id = id

\* C24 witness: "AB-1" uploaded against an index holding Puma's "AB-1" and
\* Puma's "AB 1": the first lookup hits the hyphenated record, the second
\* lookup and the second candidate would hit the other, which stays unchecked
C24_Witness ==
    /\ hasPriceCheckData
    /\ Len(lastCheck.rows) = 1
    /\ RetailerSkuRaw(lastCheck.rows[1]) = SkuABHyphen
    /\ HitsOf(lastCheck.map, SkuABHyphen) = { 1, 2, 3, 4, 5, 6 }
    /\ lastCheck.map[LookupKeys(SkuABHyphen)[2]].id # lastCheck.map[SkuABHyphen].id
    /\ lastCheck.map[LookupKeys(SkuABHyphen)[3]].id # lastCheck.map[SkuABHyphen].id
    /\ DOMAIN lastCheck.data = { lastCheck.map[SkuABHyphen].id }
    /\ \E p \in { products[i] : i \in DOMAIN products } :
         p.id = lastCheck.map[SkuABSpace].id /\ ~Annotated(p)

----------------------------------------------------------------------------
\* a and b are the same but for places where a has a hyphen and b a space
HyphensForSpaces(a, b) ==
    /\ Len(a) = Len(b)
    /\ \A j \in DOMAIN a : a[j] = b[j] \/ (a[j] = "-" /\ b[j] = " ")
    /\ \E j \in DOMAIN a : a[j] # b[j]

\* C25 (what it states of every such pair, less the choice among several
\* records): whenever the SKU of an uploaded row and the SKU of a record of
\* the index differ only in that one has hyphens where the other has spaces,
\* the row finds a record whose SKU is the uploaded one up to hyphens and
\* spaces, whichever side carries the hyphens and whatever the brand.
C25_HyphenSpaceSymmetric ==
    \A i \in DOMAIN lastCheck.rows, key \in DOMAIN lastCheck.map :
        LET raw == RetailerSkuRaw(lastCheck.rows[i])
            sku == TrimmedSku(lastCheck.map[key])
            found == FindVendorProduct(lastCheck.map, raw)
        IN  (HyphensForSpaces(raw, sku) \/ HyphensForSpaces(sku, raw)) =>
                /\ ~IsNull(found)
                /\ HyphensToSpaces(TrimmedSku(Val(found))) = HyphensToSpaces(raw)

----------------------------------------------------------------------------
\* the cell a mapField call reads, when its letter resolves within the row
CellRead ==
    call.arg.row[colLetterToIndex(call.arg.letter) + 1]

\* the name of the field of a mapField call contains the word, whatever the case
FieldHas(word) == includes(toLowerCase(FieldName[call.arg.field]), word)

\* C26: a field of the column mapping whose name contains "price" is stored
\* as the price normalizer's result, one whose name contains "date" as the
\* date normalizer's result, and every other field as the cell itself; a
\* field whose column letter does not resolve, or resolves beyond the end of
\* the row, is stored as null.
C26_FieldsByName ==
    (call.fn = "mapField" /\ call.out # << >>) =>
        LET idx == colLetterToIndex(call.arg.letter)
        IN  call.out[1] =
                IF idx = -1 \/ idx >= Len(call.arg.row) THEN Null
                ELSE IF FieldHas(<< "p","r","i","c","e" >>) THEN parsePrice(Some(CellRead))
                ELSE IF FieldHas(<< "d","a","t","e" >>) THEN parseDate(CellRead)
                ELSE Some(CellRead)

\* C26 witness: the field mapEndDate, read from column " c" of a row whose
\* third cell is "2024-01-05", is stored as that text
C26_Witness ==
    /\ call.fn = "mapField"
    /\ call.arg.field = "mapEndDate"
    /\ call.arg.letter = Some(<< " ","c" >>)
    /\ Len(call.arg.row) = 3
    /\ call.out = << Some(<< "2","0","2","4","-","0","1","-","0","5" >>) >>

----------------------------------------------------------------------------
\* the row's cell in the source's promotion column reads MAP, blanks and
\* case aside
MarkedMap(source, row) ==
    LET idx == colLetterToIndex(source.columns.promotion)
    IN  /\ idx >= 0 /\ idx < Len(row)
        /\ toUpperCase(RemoveAll(row[idx + 1], " ")) = << "M","A","P" >>

\* the SKUs of the data rows of the sheet that are marked MAP and have a SKU
MarkedSkusOf(source, sheet) ==
    LET rows == SelectSeq(DataRowsOf(source, sheet),
                          LAMBDA row : MarkedMap(source, row) /\ ~BlankSku(source, row))
    IN  [ j \in DOMAIN rows |->
            Some(normalizeSku(rows[j][colLetterToIndex(source.columns.sku) + 1], source.id)) ]

\* C27: of the Adidas source only the rows whose promotion cell is MAP, after
\* trimming and case folding, are stored; of every other source every data
\* row with a SKU is stored; when the letter of the Adidas promotion column
\* does not resolve, a warning is logged, every data row with a SKU is stored
\* and the source is reported as imported.
C27_AdidasMapFilter ==
    Logged("cleared") =>
        \A k \in 1 .. NEnabled :
            LET source == SourceAt(k)
                stored == StoredOf(source.name)
                skus == [ j \in DOMAIN stored |-> stored[j].sku ]
                filtered == source.id = AdidasId /\ ~MarkerUnresolved(source)
            IN  /\ Imported(k) =>
                     \E sheet \in SheetsOf(source) :
                         skus = IF filtered THEN MarkedSkusOf(source, sheet)
                                ELSE SkusOf(source, sheet)
                /\ (EntriesOf("warning", source.name) # << >>) <=>
                       /\ MarkerUnresolved(source)
                       /\ \E i \in StartsOf(k) :
                            i + 1 \in DOMAIN RunLog /\ RunLog[i + 1].kind = "header"
                /\ (EntriesOf("filtered", source.name) # << >>) => filtered
                /\ (MarkerUnresolved(source) /\ EntriesOf("warning", source.name) # << >>) =>
                       ~FailedAt(k, "headerRow")

\* C27 witness: Adidas imported with its promotion column at C: the row
\* marked "map " is stored, the row marked "x" is not
C27_Witness ==
    /\ RunFinished
    /\ \E k \in 1 .. NEnabled :
         /\ SourceAt(k).id = AdidasId /\ SourceAt(k).columns.promotion = ColC
         /\ Imported(k)
         /\ Len(DataRowsOf(SourceAt(k), AdidasSheet)) = 2
         /\ LET stored == StoredOf(SourceAt(k).name)
            IN  Len(stored) = 1 /\ stored[1].sku = Some(<< "A","1" >>)
                /\ stored[1].promotion = Some(<< "m","a","p"," " >>)

----------------------------------------------------------------------------
\* the rows of the latest check that resolve to the product id, and those of
\* them that were judged (both prices usable)
ResolvedTo(id) == { i \in FoundRows : FoundBy(i).id = id }

JudgedFor(id) ==
    { i \in ResolvedTo(id) :
        ~IsNull(parsePrice(lastCheck.rows[i].price)) /\ ~IsNull(FoundBy(i).price) }

LastOf(rowSet) == CHOOSE i \in rowSet : \A j \in rowSet : j <= i

ResolvedIds == { FoundBy(i).id : i \in FoundRows }

\* the annotation of id is the one computed from row i
AnnotationFrom(id, i) ==
    /\ id \in DOMAIN lastCheck.data
    /\ Some(lastCheck.data[id].ourPrice) = parsePrice(lastCheck.rows[i].price)
    /\ lastCheck.data[id].salePrice = SalePriceOf(lastCheck.rows[i])

\* the products in memory carry the annotations of the latest check, each
\* under its own id, and each is counted once
CountedOnce ==
    /\ \A a, b \in DOMAIN products : products[a].id = products[b].id => a = b
    /\ \A a \in DOMAIN products :
         products[a].id \in DOMAIN lastCheck.data =>
             \A f \in AnnotationFields :
                 f \in DOMAIN products[a] /\ products[a][f] = lastCheck.data[products[a].id][f]
    /\ Val(priceCheckStats).productsChecked =
           Cardinality({ id \in ResolvedIds : JudgedFor(id) # {} })
    /\ SumOfCounts(Val(priceCheckStats).brandsAffected) = Cardinality(ViolatingIds)

\* C28 (as amended): after a completed check a product carries at most one
\* annotation, under its id: when several uploaded rows resolve to the same
\* product the annotation is that of the last of them that was judged (its
\* price and the record's price both usable), none when no such row was
\* judged, and the product is counted once among the products checked and at
\* most once among the violations.
C28_LastJudgedRowWins ==
    priceCheckStats # Null =>
        /\ \A id \in ResolvedIds :
             IF JudgedFor(id) = {} THEN id \notin DOMAIN lastCheck.data
             ELSE AnnotationFrom(id, LastOf(JudgedFor(id)))
        /\ DOMAIN lastCheck.data \subseteq ResolvedIds
        /\ CountedOnce

\* C28 witness: "AB-1" at $110 and then "AB 1" at 95 on sale at 90, both
\* resolving to the one Puma record: one annotation, that of the second row
C28_Witness ==
    /\ priceCheckStats # Null
    /\ lastCheck.rows = FileTwice
    /\ \E id \in ResolvedIds :
         /\ ResolvedTo(id) = { 1, 2 } /\ JudgedFor(id) = { 1, 2 }
         /\ DOMAIN lastCheck.data = { id }
         /\ lastCheck.data[id].ourPrice = 95 * PriceScale
         /\ lastCheck.data[id].salePrice = Some(90 * PriceScale)
         /\ lastCheck.data[id].isViolation
    /\ Val(priceCheckStats).productsChecked = 1
    /\ Val(priceCheckStats).brandsAffected = << [ name |-> PumaName, count |-> 1 ] >>

\* C28 as stated: the annotation is that of the last row, in upload order,
\* that resolves to the product
C28_LastResolvedRowWins ==
    priceCheckStats # Null =>
        /\ \A id \in ResolvedIds :
             Cardinality(ResolvedTo(id)) > 1 => AnnotationFrom(id, LastOf(ResolvedTo(id)))
        /\ CountedOnce

----------------------------------------------------------------------------
\* C29: once a reconciliation has completed, every id of the checked-product
\* set is the id of a product of the in-memory product set, and that product
\* carries the annotation computed for it, its mapPrice being its price;
\* whatever the interleaving of the upload with an import run.
C29_CheckedIdsAreCurrent ==
    checkedProductIds # Null =>
        \A id \in Val(checkedProductIds) :
            \E i \in DOMAIN products :
                /\ products[i].id = id
                /\ Annotated(products[i])
                /\ Some(products[i].mapPrice) = products[i].price

----------------------------------------------------------------------------
(* The import under fairness: every awaited step (the clear, a fetch, a    *)
(* save, the reload of the products, the load at mount) eventually         *)
(* resolves or rejects.                                                    *)
SpecLive ==
    /\ InitImport
    /\ [][NextImport]_vars
    /\ WF_vars(MountLoaded)
    /\ WF_vars(ClearDone \/ ClearFailed)
    /\ WF_vars(FetchFailed \/ FetchResolved)
    /\ WF_vars(SaveDone \/ SaveFailed)
    /\ WF_vars(LoadDone \/ LoadFailed)

\* C30: every import that handleImport starts eventually ends with
\* isImporting false again and the products in memory those of the store,
\* whichever of its awaited steps fail.
C30_ImportEnds == isImporting ~> (~isImporting /\ products = store)

=============================================================================
